---------------------------- MODULE Spec2Model ----------------------------
(***************************************************************************)
(* A model of the JOSS interpreter core (wryun/joss-language): the token   *)
(* stream, the recursive-descent / precedence-climbing parser, the         *)
(* tree-walking evaluator and the Joss environment (variables, arrays,     *)
(* program store).                                                         *)
(*                                                                         *)
(* Representation.                                                         *)
(*  - A string of the program is a sequence of one-character strings, so   *)
(*    that includes('.'), split('.'), slice and Number(string) are         *)
(*    computed on the characters.                                          *)
(*  - A JavaScript number is an exact rational [n, d] with d > 0 in lowest *)
(*    terms; d = 0 encodes NaN (n = 0), +Infinity (n = 1) and -Infinity    *)
(*    (n = -1).  The inputs are small decimals, for which the order and    *)
(*    the equality of the doubles agree with those of the rationals.       *)
(*    Negative zero is not distinguished from zero.                        *)
(*  - An input line is the token sequence the tokeniser hands to parse().  *)
(***************************************************************************)
EXTENDS Integers, Sequences, FiniteSets, TLC

\* The fields of the Joss object (variables, arrays, program, programParts),
\* the JossArray objects it refers to (heap, nextId), the text the sink
\* received from the last input (stdout), and what the session's driver saw
\* of the last call of Joss.eval (last: the input, the error thrown, the stored
\* steps executed, the Joss object before the call) and how many calls it made
\* (nlines).
VARIABLES variables, arrays, heap, program, programParts, stdout, nextId,
          last, nlines

vars == <<variables, arrays, heap, program, programParts, stdout, nextId,
          last, nlines>>

(***************************************************************************)
(* Bounds of the model.                                                    *)
(***************************************************************************)
\* inputs evaluated in one session
MaxLines == 4
\* inputs evaluated in one session of stored-command registrations
MaxStoreLines == 5
\* inputs evaluated in one session of Do ... for and Do ..., E times
MaxDoLines == 4
\* inputs evaluated in one session of conditional expressions
MaxCondLines == 3
\* inputs evaluated in one session of lines with and without a period
MaxPeriodLines == 3
\* inputs evaluated in one session of lines of text
MaxTextLines == 4
\* inputs evaluated in one session of guarded commands
MaxGuardLines == 3
\* inputs evaluated in one session of stored commands with unbound names
MaxDeferLines == 4
\* inputs evaluated in one session of commands that fail part-way
MaxPartialLines == 4
\* inputs evaluated in one session of expressions of two operators
MaxPrecLines == 1
\* inputs evaluated in one session of ranges with a step that is not positive
MaxRangeLines == 3
\* calls of Joss.eval in one session of inputs of several lines
MaxCalls == 3
\* inputs evaluated in one session of Do lines with a malformed range
MaxMalformedLines == 3
\* inputs evaluated in one session of lines with a bracket pair
MaxBracketLines == 2
\* calls of Joss.eval in one session of loops whose unit assigns to what they read
MaxLoopCalls == 3
\* inputs evaluated in one session of functions with free names
MaxScopeLines == 4
\* inputs evaluated in one session of Let definitions and calls
MaxLetLines == 4
\* iterations simulated of a loop that cannot end by itself
MaxIter == 3
\* nesting of Do inside stored steps before the call stack is exhausted
MaxDepth == 3

(***************************************************************************)
(* Strings.                                                                *)
(***************************************************************************)
Digits == <<"0", "1", "2", "3", "4", "5", "6", "7", "8", "9">>

IsDigit(c) == \E i \in 1..10 : Digits[i] = c

DigitVal(c) == (CHOOSE i \in 1..10 : Digits[i] = c) - 1

\* String.prototype.includes for a one-character needle
includes(s, c) == \E i \in 1..Len(s) : s[i] = c

\* index of the first occurrence of c in s, Len(s) + 1 when there is none
RECURSIVE IndexOf(_, _, _)
IndexOf(s, c, i) ==
    IF i > Len(s) THEN Len(s) + 1
    ELSE IF s[i] = c THEN i
    ELSE IndexOf(s, c, i + 1)

\* String.prototype.split for a one-character separator
RECURSIVE split(_, _)
split(s, c) ==
    LET i == IndexOf(s, c, 1) IN
    IF i > Len(s) THEN <<s>>
    ELSE <<SubSeq(s, 1, i - 1)>> \o split(SubSeq(s, i + 1, Len(s)), c)

\* Array.prototype.join of strings
RECURSIVE join(_, _)
join(ss, sep) ==
    IF Len(ss) = 0 THEN <<>>
    ELSE IF Len(ss) = 1 THEN ss[1]
    ELSE ss[1] \o sep \o join(Tail(ss), sep)

(***************************************************************************)
(* Numbers.                                                                *)
(***************************************************************************)
Abs(i) == IF i < 0 THEN -i ELSE i

RECURSIVE GCD(_, _)
GCD(a, b) == IF b = 0 THEN a ELSE GCD(b, a % b)

\* the rational n/d, d # 0, in lowest terms with a positive denominator
Norm(n, d) ==
    LET g == GCD(Abs(n), Abs(d))
        s == IF d < 0 THEN -1 ELSE 1
    IN  [t |-> "num", n |-> s * (n \div g), d |-> s * (d \div g)]

Num(i) == [t |-> "num", n |-> i, d |-> 1]
NaN == [t |-> "num", n |-> 0, d |-> 0]
PosInf == [t |-> "num", n |-> 1, d |-> 0]
NegInf == [t |-> "num", n |-> -1, d |-> 0]

IsNaN(x) == x.d = 0 /\ x.n = 0
IsFinite(x) == x.d # 0
Sign(x) == IF x.n > 0 THEN 1 ELSE IF x.n < 0 THEN -1 ELSE 0
Inf(s) == IF s < 0 THEN NegInf ELSE PosInf

NumAdd(x, y) ==
    IF IsNaN(x) \/ IsNaN(y) THEN NaN
    ELSE IF IsFinite(x) /\ IsFinite(y) THEN Norm(x.n * y.d + y.n * x.d, x.d * y.d)
    ELSE IF IsFinite(x) THEN y
    ELSE IF IsFinite(y) THEN x
    ELSE IF x.n = y.n THEN x ELSE NaN

NumNeg(x) == [t |-> "num", n |-> -x.n, d |-> x.d]

NumSub(x, y) == NumAdd(x, NumNeg(y))

NumMul(x, y) ==
    IF IsNaN(x) \/ IsNaN(y) THEN NaN
    ELSE IF IsFinite(x) /\ IsFinite(y) THEN Norm(x.n * y.n, x.d * y.d)
    ELSE IF Sign(x) * Sign(y) = 0 THEN NaN
    ELSE Inf(Sign(x) * Sign(y))

NumDiv(x, y) ==
    IF IsNaN(x) \/ IsNaN(y) THEN NaN
    ELSE IF ~IsFinite(y) THEN (IF IsFinite(x) THEN Num(0) ELSE NaN)
    ELSE IF ~IsFinite(x) THEN Inf(Sign(x) * (IF y.n < 0 THEN -1 ELSE 1))
    ELSE IF y.n = 0 THEN (IF x.n = 0 THEN NaN ELSE Inf(Sign(x)))
    ELSE Norm(x.n * y.d, x.d * y.n)

NumLt(x, y) ==
    IF IsNaN(x) \/ IsNaN(y) THEN FALSE
    ELSE IF IsFinite(x) /\ IsFinite(y) THEN x.n * y.d < y.n * x.d
    ELSE IF ~IsFinite(x) /\ ~IsFinite(y) THEN x.n < y.n
    ELSE IF IsFinite(x) THEN y.n > 0
    ELSE x.n < 0

NumEq(x, y) == ~IsNaN(x) /\ ~IsNaN(y) /\ x = y

NumLe(x, y) == NumLt(x, y) \/ NumEq(x, y)

\* Math.trunc
Trunc(x) ==
    IF ~IsFinite(x) THEN x
    ELSE IF x.n >= 0 THEN Num(x.n \div x.d)
    ELSE Num(-((-x.n) \div x.d))

RECURSIVE Pow10(_)
Pow10(k) == IF k = 0 THEN 1 ELSE 10 * Pow10(k - 1)

RECURSIVE DigitsVal(_)
DigitsVal(s) ==
    IF Len(s) = 0 THEN 0
    ELSE 10 * DigitsVal(SubSeq(s, 1, Len(s) - 1)) + DigitVal(s[Len(s)])

\* Number(string) on a string of digits and dots: "" is 0, a string with two
\* dots or with no digit is NaN, "1." is 1, ".5" is 0.5, "1.10" is 1.1
StringToNumber(s) ==
    IF Len(s) = 0 THEN Num(0)
    ELSE IF \E i \in 1..Len(s) : ~IsDigit(s[i]) /\ s[i] # "." THEN NaN
    ELSE LET parts == split(s, ".") IN
         IF Len(parts) > 2 THEN NaN
         ELSE IF Len(parts) = 1 THEN Num(DigitsVal(s))
         ELSE IF Len(parts[1]) = 0 /\ Len(parts[2]) = 0 THEN NaN
         ELSE Norm(DigitsVal(parts[1]) * Pow10(Len(parts[2])) + DigitsVal(parts[2]),
                   Pow10(Len(parts[2])))

RECURSIVE NatToString(_)
NatToString(i) ==
    IF i < 10 THEN <<Digits[i + 1]>>
    ELSE NatToString(i \div 10) \o <<Digits[(i % 10) + 1]>>

\* the decimal digits of r/d (0 <= r < d), at most k of them (toString prints
\* at most 16 fractional digits of the small numbers of the model)
RECURSIVE FracDigits(_, _, _)
FracDigits(r, d, k) ==
    IF r = 0 \/ k = 0 THEN <<>>
    ELSE <<Digits[((10 * r) \div d) + 1]>> \o FracDigits((10 * r) % d, d, k - 1)

\* Number.prototype.toString
NumberToString(x) ==
    IF IsNaN(x) THEN <<"N", "a", "N">>
    ELSE IF ~IsFinite(x) THEN
        (IF x.n < 0 THEN <<"-">> ELSE <<>>) \o <<"I", "n", "f", "i", "n", "i", "t", "y">>
    ELSE LET a == Abs(x.n)
             frac == FracDigits(a % x.d, x.d, 16)
         IN  (IF x.n < 0 THEN <<"-">> ELSE <<>>)
             \o NatToString(a \div x.d)
             \o (IF Len(frac) = 0 THEN <<>> ELSE <<".">> \o frac)

(***************************************************************************)
(* Tokens and the token iterator.                                          *)
(***************************************************************************)
Tok(type, raw) == [type |-> type, raw |-> raw]

\* the terminal the iterator returns, forever, once the line is used up
END == Tok("END", <<>>)

\* TokenIterator.peek
peek(tokens) == IF Len(tokens) = 0 THEN END ELSE Head(tokens)

\* the iterator after TokenIterator.next (whose result is peek)
advance(tokens) == IF Len(tokens) = 0 THEN tokens ELSE Tail(tokens)

\* "no raw text asked for" (raw === null)
NoRaw == <<"<null>">>

\* expect(): TRUE when the token matches, FALSE when expect throws
\* an expect that looks at the type of the token only
Mut_expect(t, type, raw) == t.type = type

expect(t, type, raw) == t.type = type /\ (raw = NoRaw \/ t.raw = raw)

closing(open) == IF open.raw = <<"[">> THEN <<"]">> ELSE <<")">>

(***************************************************************************)
(* Results of the parser and of the evaluator.                             *)
(***************************************************************************)
NULL == [k |-> "null"]

Ok(node, rest) == [ok |-> TRUE, node |-> node, rest |-> rest]

\* a thrown error; kind "hang" stands for a call that never returns
Throw(kind) == [ok |-> FALSE, err |-> kind]

(***************************************************************************)
(* Expression parser.                                                      *)
(***************************************************************************)
NumberExpression(num) == [k |-> "NumberExpression", num |-> num]

VariableExpression(v, indices) ==
    [k |-> "VariableExpression", v |-> v, indices |-> indices]

BinaryExpression(op, lhs, rhs) ==
    [k |-> "BinaryExpression", fn |-> op, lhs |-> lhs, rhs |-> rhs]

ConditionalExpression(conditionResults, result) ==
    [k |-> "ConditionalExpression", conditionResults |-> conditionResults,
     result |-> result]

\* the precedence column of Expression.BINARY_OPERATORS
\* the table with + and - above * and /
Mut_BINARY_OPERATORS ==
    (<<"o", "r">> :> 0) @@ (<<"a", "n", "d">> :> 1) @@
    (<<"=">> :> 2) @@ (<<"!", "=">> :> 2) @@
    (<<"<">> :> 3) @@ (<<">">> :> 3) @@ (<<"<", "=">> :> 3) @@ (<<">", "=">> :> 3) @@
    (<<"+">> :> 5) @@ (<<"-">> :> 5) @@
    (<<"/">> :> 4) @@ (<<"*">> :> 4)

BINARY_OPERATORS ==
    (<<"o", "r">> :> 0) @@ (<<"a", "n", "d">> :> 1) @@
    (<<"=">> :> 2) @@ (<<"!", "=">> :> 2) @@
    (<<"<">> :> 3) @@ (<<">">> :> 3) @@ (<<"<", "=">> :> 3) @@ (<<">", "=">> :> 3) @@
    (<<"+">> :> 4) @@ (<<"-">> :> 4) @@
    (<<"/">> :> 5) @@ (<<"*">> :> 5)

NumberExpression_parse(tokens) ==
    Ok(NumberExpression(StringToNumber(peek(tokens).raw)), advance(tokens))

\* the rest of a parse once a sub-parse has returned: an error thrown by the
\* sub-parse propagates, otherwise the parse continues with its result
Try(r, K(_)) == IF ~r.ok THEN r ELSE K(r)

RECURSIVE Expression_parse(_)
RECURSIVE parse_unary(_)
RECURSIVE parse_binary(_, _, _)
RECURSIVE parse_binary_rhs(_, _, _)
RECURSIVE parse_conditional(_, _, _, _)
RECURSIVE VariableExpression_parse(_)
RECURSIVE parse_indices(_, _, _, _)

Expression_parse(tokens) ==
    Try(parse_unary(tokens), LAMBDA u : parse_binary(u.rest, u.node, 0))

\* the loop of the OPEN_BRACKET case: result is the expression read last
parse_conditional(tokens, conditionResults, result, open) ==
    IF peek(tokens).type = "COLON" THEN
        Try(Expression_parse(advance(tokens)), LAMBDA r :
            IF ~expect(peek(r.rest), "SEMICOLON", NoRaw) THEN Throw("parse")
            ELSE Try(Expression_parse(advance(r.rest)), LAMBDA d :
                     parse_conditional(d.rest,
                         Append(conditionResults,
                                [condition |-> result, result |-> r.node]),
                         d.node, open)))
    ELSE IF ~expect(peek(tokens), "CLOSE_BRACKET", closing(open)) THEN Throw("parse")
    ELSE IF Len(conditionResults) > 0
         THEN Ok(ConditionalExpression(conditionResults, result), advance(tokens))
         ELSE Ok(result, advance(tokens))

parse_unary(tokens) ==
    CASE peek(tokens).type = "NUM" -> NumberExpression_parse(tokens)
      [] peek(tokens).type = "VAR" -> VariableExpression_parse(tokens)
      [] peek(tokens).type = "OPEN_BRACKET" ->
            Try(Expression_parse(advance(tokens)), LAMBDA r :
                parse_conditional(r.rest, <<>>, r.node, peek(tokens)))
      [] OTHER -> Throw("parse")

\* the inner while loop of parse_binary: absorb the operators that bind
\* tighter than the current one
parse_binary_rhs(tokens, rhs, prec) ==
    IF peek(tokens).type # "OP" THEN Ok(rhs, tokens)
    ELSE IF peek(tokens).raw \notin DOMAIN BINARY_OPERATORS THEN Throw("TypeError")
    ELSE IF BINARY_OPERATORS[peek(tokens).raw] > prec THEN
        Try(parse_binary(tokens, rhs, BINARY_OPERATORS[peek(tokens).raw]), LAMBDA r :
            parse_binary_rhs(r.rest, r.node, prec))
    ELSE Ok(rhs, tokens)

parse_binary(tokens, lhs, min_prec) ==
    IF peek(tokens).type # "OP" THEN Ok(lhs, tokens)
    ELSE IF peek(tokens).raw \notin DOMAIN BINARY_OPERATORS THEN Throw("TypeError")
    ELSE IF BINARY_OPERATORS[peek(tokens).raw] >= min_prec THEN
        Try(parse_unary(advance(tokens)), LAMBDA u :
            Try(parse_binary_rhs(u.rest, u.node, BINARY_OPERATORS[peek(tokens).raw]),
                LAMBDA r :
                    parse_binary(r.rest, BinaryExpression(peek(tokens).raw, lhs, r.node),
                                 min_prec)))
    ELSE Ok(lhs, tokens)

\* the while (true) loop of VariableExpression.parse
parse_indices(tokens, v, indices, expectedBracket) ==
    Try(Expression_parse(tokens), LAMBDA e :
        IF peek(e.rest).raw = expectedBracket
        THEN Ok(VariableExpression(v, Append(indices, e.node)), advance(e.rest))
        ELSE IF ~expect(peek(e.rest), "COMMA", NoRaw) THEN Throw("parse")
        ELSE parse_indices(advance(e.rest), v, Append(indices, e.node), expectedBracket))

VariableExpression_parse(tokens) ==
    IF peek(advance(tokens)).type # "OPEN_BRACKET"
    THEN Ok(VariableExpression(peek(tokens).raw, <<>>), advance(tokens))
    ELSE parse_indices(advance(advance(tokens)), peek(tokens).raw, <<>>,
                       closing(peek(advance(tokens))))

(***************************************************************************)
(* ValueRange: the list of generators of a for modifier.                   *)
(***************************************************************************)
SingleValueGenerator(e) == [g |-> "single", e |-> e]

RangeGenerator(start, step, end) ==
    [g |-> "range", start |-> start, step |-> step, end |-> end]

\* the while loop of ValueRange.parse; start is the pending expression.  A
\* token that is neither a comma nor an opening bracket is dropped, and at the
\* end of the line the iterator returns END forever: the loop never ends.
RECURSIVE ValueRange_loop(_, _, _)
ValueRange_loop(tokens, generators, start) ==
    LET token == peek(tokens) IN
    IF token.raw = <<":">> \/ token.raw = <<".">>
    THEN Ok([k |-> "ValueRange",
             generators |-> Append(generators, SingleValueGenerator(start))], tokens)
    ELSE IF token.raw = <<",">> THEN
        Try(Expression_parse(advance(tokens)), LAMBDA e :
            ValueRange_loop(e.rest, Append(generators, SingleValueGenerator(start)),
                            e.node))
    ELSE IF token.type = "OPEN_BRACKET" THEN
        Try(Expression_parse(advance(tokens)), LAMBDA step :
            IF ~expect(peek(step.rest), "CLOSE_BRACKET", closing(token))
            THEN Throw("parse")
            ELSE Try(Expression_parse(advance(step.rest)), LAMBDA end :
                     ValueRange_loop(end.rest,
                         Append(generators, RangeGenerator(start, step.node, end.node)),
                         end.node)))
    ELSE IF token.type = "END" THEN Throw("hang")
    ELSE ValueRange_loop(advance(tokens), generators, start)

ValueRange_parse(tokens) ==
    Try(Expression_parse(tokens), LAMBDA start :
        ValueRange_loop(start.rest, <<>>, start.node))

(***************************************************************************)
(* Verb and command parser.                                                *)
(***************************************************************************)
NoOp == [k |-> "NoOp"]
Maths(expression) == [k |-> "Maths", expression |-> expression]
QuotedString(val) == [k |-> "QuotedString", val |-> val]
Type(expressions) == [k |-> "Type", expressions |-> expressions]
Set(target, expression) == [k |-> "Set", target |-> target, expression |-> expression]
Let(target, argNames, expression) ==
    [k |-> "Let", target |-> target, argNames |-> argNames, expression |-> expression]
If(expression) == [k |-> "If", expression |-> expression]
Command(verb, ifmodifier) == [k |-> "Command", verb |-> verb, ifmodifier |-> ifmodifier]
StoredCommand(part, step, command) ==
    [k |-> "StoredCommand", part |-> part, step |-> step, command |-> command]

\* the Do verb; times and for are NULL until a modifier is parsed.  A step
\* that is null is the empty string (step || null, and if (this.step), take
\* the two for one)
Do(part, step) ==
    [k |-> "Do", part |-> part, step |-> step, times |-> NULL, for |-> NULL]

Maths_parse(tokens) ==
    Try(Expression_parse(tokens), LAMBDA e : Ok(Maths(e.node), e.rest))

\* token.raw.slice(1, -1)
QuotedString_parse(tokens) ==
    LET raw == peek(tokens).raw IN
    Ok(QuotedString(SubSeq(raw, 2, Len(raw) - 1)), advance(tokens))

\* the do ... while (true) loop of Type.parse, parseDecision included
RECURSIVE Type_loop(_, _)
Type_loop(tokens, expressions) ==
    LET t == peek(tokens).type IN
    Try(IF t \in {"VAR", "NUM", "OP", "OPEN_BRACKET"} THEN Maths_parse(tokens)
        ELSE IF t = "STR" THEN QuotedString_parse(tokens)
        ELSE Throw("parse"),
        LAMBDA e :
            IF peek(e.rest).type # "COMMA"
            THEN Ok(Type(Append(expressions, e.node)), e.rest)
            ELSE Type_loop(advance(e.rest), Append(expressions, e.node)))

Type_parse(tokens) == Type_loop(tokens, <<>>)

Set_parse(tokens) ==
    Try(VariableExpression_parse(tokens), LAMBDA v :
        IF ~expect(peek(v.rest), "OP", <<"=">>) THEN Throw("parse")
        ELSE Try(Expression_parse(advance(v.rest)), LAMBDA e :
                 Ok(Set(v.node, e.node), e.rest)))

\* the while (true) loop of Let.parse.  The token handed to the second
\* expect is the name just read (of type VAR), not the next token.
RECURSIVE Let_argNames(_, _)
Let_argNames(tokens, argNames) ==
    LET token == peek(tokens) IN
    IF ~expect(token, "VAR", NoRaw) THEN Throw("parse")
    ELSE IF peek(advance(tokens)).type = "CLOSE_BRACKET"
         THEN Ok(Append(argNames, token.raw), advance(tokens))
    ELSE IF ~expect(token, "COMMA", NoRaw) THEN Throw("parse")
    ELSE Let_argNames(advance(tokens), Append(argNames, token.raw))

\* the optional formals of Let.parse, brackets included
Let_formals(tokens) ==
    LET token == peek(advance(tokens)) IN
    IF token.type = "OPEN_BRACKET"
    THEN Try(Let_argNames(advance(advance(tokens)), <<>>), LAMBDA a :
             IF ~expect(peek(a.rest), "CLOSE_BRACKET", closing(token))
             THEN Throw("parse")
             ELSE Ok(a.node, advance(a.rest)))
    ELSE Ok(<<>>, advance(tokens))

Let_parse(tokens) ==
    Try(Let_formals(tokens), LAMBDA a :
        IF ~expect(peek(a.rest), "OP", <<"=">>) THEN Throw("parse")
        ELSE Try(Expression_parse(advance(a.rest)), LAMBDA e :
                 Ok(Let(VariableExpression(peek(tokens).raw, <<>>), a.node, e.node),
                    e.rest)))

\* the modifier switch of Do.parse
Do_modifier(tokens, doVerb) ==
    IF peek(tokens).raw = <<"f", "o", "r">> THEN
        LET token == peek(advance(tokens)) IN
        IF ~expect(token, "VAR", NoRaw) THEN Throw("parse")
        ELSE IF ~expect(peek(advance(advance(tokens))), "OP", <<"=">>) THEN Throw("parse")
        ELSE Try(ValueRange_parse(advance(advance(advance(tokens)))), LAMBDA r :
                 Ok([doVerb EXCEPT !.for = [s |-> token.raw, range |-> r.node]], r.rest))
    ELSE IF peek(tokens).raw = <<",">> THEN
        Try(Expression_parse(advance(tokens)), LAMBDA e :
            IF ~expect(peek(e.rest), "ID", <<"t", "i", "m", "e", "s">>)
            THEN Throw("parse")
            ELSE Ok([doVerb EXCEPT !.times = e.node], advance(e.rest)))
    ELSE Ok(doVerb, tokens)

Do_parse(tokens) ==
    LET kind == peek(tokens).raw
        token == peek(advance(tokens))
        parts == split(token.raw, ".")
    IN  IF kind = <<"s", "t", "e", "p">> /\ ~includes(token.raw, ".") THEN Throw("parse")
        ELSE IF kind = <<"p", "a", "r", "t">> /\ includes(token.raw, ".") THEN Throw("parse")
        ELSE IF kind \notin {<<"s", "t", "e", "p">>, <<"p", "a", "r", "t">>} THEN Throw("parse")
        ELSE Do_modifier(advance(advance(tokens)),
                 Do(parts[1], IF Len(parts) >= 2 THEN parts[2] ELSE <<>>))

If_parse(tokens) ==
    IF ~expect(peek(tokens), "ID", <<"i", "f">>) THEN Throw("parse")
    ELSE Try(Expression_parse(advance(tokens)), LAMBDA e : Ok(If(e.node), e.rest))

\* the verb switch of Command.parse
Verb_parse(tokens) ==
    LET token == peek(tokens)
        rest == advance(tokens)
    IN  CASE token.type = "END" -> Ok(NoOp, rest)
          [] token.type = "ID" /\ token.raw = <<"T", "y", "p", "e">> -> Type_parse(rest)
          [] token.type = "ID" /\ token.raw = <<"S", "e", "t">> -> Set_parse(rest)
          [] token.type = "ID" /\ token.raw = <<"L", "e", "t">> -> Let_parse(rest)
          [] token.type = "ID" /\ token.raw = <<"D", "o">> -> Do_parse(rest)
          [] OTHER -> Throw("parse")

Command_parse(tokens) ==
    Try(Verb_parse(tokens), LAMBDA verb :
        IF peek(verb.rest).raw = <<"i", "f">>
        THEN Try(If_parse(verb.rest), LAMBDA i : Ok(Command(verb.node, i.node), i.rest))
        ELSE Ok(Command(verb.node, NULL), verb.rest))

StoredCommand_parse(tokens) ==
    LET token == peek(tokens)
        parts == split(token.raw, ".")
    IN  IF ~includes(token.raw, ".") THEN Throw("parse")
        ELSE Try(Command_parse(advance(tokens)), LAMBDA c :
                 Ok(StoredCommand(parts[1], parts[2], c.node), c.rest))

\* a parse that does not look at the token after the command
Mut_parse(tokens) ==
    IF peek(tokens).type = "NUM" THEN StoredCommand_parse(tokens)
    ELSE Command_parse(tokens)

parse(tokens) ==
    Try(IF peek(tokens).type = "NUM" THEN StoredCommand_parse(tokens)
        ELSE Command_parse(tokens),
        LAMBDA c :
            IF ~expect(peek(c.rest), "PERIOD", NoRaw) THEN Throw("parse")
            ELSE Ok(c.node, advance(c.rest)))

(***************************************************************************)
(* Values: number | boolean | callable.  A callable is a built-in          *)
(* function, the closure a Let creates (a fresh object, id, with the Let's *)
(* formal names and body) or the accessor joss.get binds to an array       *)
(* object of the heap.                                                     *)
(***************************************************************************)
Bool(b) == [t |-> "bool", b |-> b]
Builtin(name) == [t |-> "fn", f |-> "builtin", name |-> name]
Closure(id, argNames, expression) ==
    [t |-> "fn", f |-> "let", id |-> id, argNames |-> argNames, expression |-> expression]
Accessor(obj) == [t |-> "fn", f |-> "array", obj |-> obj]

Val(v) == [ok |-> TRUE, v |-> v]

\* Number(v)
ToNumber(v) ==
    IF v.t = "num" THEN v
    ELSE IF v.t = "bool" THEN (IF v.b THEN Num(1) ELSE Num(0))
    ELSE NaN

\* Boolean(v)
ToBoolean(v) ==
    IF v.t = "num" THEN ~IsNaN(v) /\ v.n # 0
    ELSE IF v.t = "bool" THEN v.b
    ELSE TRUE

\* a == b: numbers and booleans are compared as numbers, callables by
\* reference (an accessor is a new object at every joss.get)
LooseEq(a, b) ==
    IF a.t = "fn" \/ b.t = "fn"
    THEN a.t = "fn" /\ b.t = "fn" /\ a.f # "array" /\ a = b
    ELSE NumEq(ToNumber(a), ToNumber(b))

\* v.toString(); the source text of a callable is an opaque string
toString(v) ==
    IF v.t = "num" THEN NumberToString(v)
    ELSE IF v.t = "bool" THEN
        (IF v.b THEN <<"t", "r", "u", "e">> ELSE <<"f", "a", "l", "s", "e">>)
    ELSE <<"<function source>">>

\* the fn column of Expression.BINARY_OPERATORS
BinaryFn(op, a, b) ==
    CASE op = <<"o", "r">> -> Bool(ToBoolean(a) /\ ToBoolean(b))
      [] op = <<"a", "n", "d">> -> Bool(ToBoolean(a) /\ ToBoolean(b))
      [] op = <<"=">> -> Bool(LooseEq(a, b))
      [] op = <<"!", "=">> -> Bool(~LooseEq(a, b))
      [] op = <<"<">> -> Bool(NumLt(ToNumber(a), ToNumber(b)))
      [] op = <<">">> -> Bool(NumLt(ToNumber(b), ToNumber(a)))
      [] op = <<"<", "=">> -> Bool(NumLe(ToNumber(a), ToNumber(b)))
      [] op = <<">", "=">> -> Bool(NumLe(ToNumber(b), ToNumber(a)))
      [] op = <<"+">> -> NumAdd(ToNumber(a), ToNumber(b))
      [] op = <<"-">> -> NumSub(ToNumber(a), ToNumber(b))
      [] op = <<"/">> -> NumDiv(ToNumber(a), ToNumber(b))
      [] op = <<"*">> -> NumMul(ToNumber(a), ToNumber(b))

\* the number dissection functions of FUNCTIONS (the others are not inputs
\* of the model)
FUNCTIONS == {<<"s", "g", "n">>, <<"i", "p">>, <<"f", "p">>}

\* a missing argument is undefined, whose Number() is NaN
FUNCTIONS_call(name, args) ==
    LET x == IF Len(args) = 0 THEN NaN ELSE ToNumber(args[1]) IN
    CASE name = <<"s", "g", "n">> -> IF IsNaN(x) THEN NaN ELSE Num(Sign(x))
      [] name = <<"i", "p">> -> Trunc(x)
      [] name = <<"f", "p">> -> NumSub(x, Trunc(x))

(***************************************************************************)
(* JossArray.                                                              *)
(***************************************************************************)
JossArray_new == [value |-> <<>>, dimensions |-> 0, sparse |-> FALSE]

\* `(${indices.map(String).join(',')})`
makeKey(indices) ==
    <<"(">> \o join([i \in 1..Len(indices) |-> toString(indices[i])], <<",">>) \o <<")">>

Mut_JossArray_set(a, indices, v) ==
    [a EXCEPT !.value = (makeKey(indices) :> v) @@ a.value,
              !.dimensions = Len(indices)]

JossArray_set(a, indices, v) ==
    LET b == IF Len(indices) # a.dimensions
             THEN [a EXCEPT !.value = <<>>, !.dimensions = Len(indices)]
             ELSE a
    IN  [b EXCEPT !.value = (makeKey(indices) :> v) @@ b.value]

JossArray_get(a, indices) ==
    IF Len(indices) # a.dimensions THEN Throw("dimension")
    ELSE IF makeKey(indices) \in DOMAIN a.value THEN Val(a.value[makeKey(indices)])
    ELSE IF a.sparse THEN Val(Num(0))
    ELSE Throw("missing")

(***************************************************************************)
(* Joss: the environment.  j is the record of the fields of the object     *)
(* (the heap holds the JossArray objects, nextId the next object id) and   *)
(* of the trace of the stored steps executed by the current line.          *)
(***************************************************************************)
Joss_new ==
    [variables |-> <<>>, arrays |-> <<>>, heap |-> <<>>, program |-> <<>>,
     programParts |-> <<>>, stdout |-> <<>>, nextId |-> 1, trace |-> <<>>]

output(j, s) == [j EXCEPT !.stdout = @ \o s]

\* delete o[s]
delete(o, s) == [x \in DOMAIN o \ {s} |-> o[x]]

\* o[s] = v
assign(o, s, v) == (s :> v) @@ o

Mut_setVariable(j, s, v) == [j EXCEPT !.variables = assign(j.variables, s, v)]

setVariable(j, s, v) ==
    [j EXCEPT !.variables = assign(j.variables, s, v),
              !.arrays = delete(j.arrays, s)]

setArray(j, s, indices, v) ==
    LET fresh == s \notin DOMAIN j.arrays
        id == IF fresh THEN j.nextId ELSE j.arrays[s]
        a == IF fresh THEN JossArray_new ELSE j.heap[id]
    IN  [j EXCEPT !.arrays = assign(j.arrays, s, id),
                  !.heap = assign(j.heap, id, JossArray_set(a, indices, v)),
                  !.nextId = IF fresh THEN @ + 1 ELSE @,
                  !.variables = delete(j.variables, s)]

\* an insertion that puts the new key in front of the list
Mut_setStep_front(partSteps, i, stepLoc, fullName) == <<fullName>> \o partSteps

\* partSteps[k] = x, where k may be one past the end
setAt(partSteps, k, x) ==
    IF k = Len(partSteps) + 1 THEN Append(partSteps, x)
    ELSE [partSteps EXCEPT ![k] = x]

Mut_setStep_insert(partSteps, i, stepLoc, fullName) == Append(partSteps, fullName)

\* the for loop of setStep; i is the loop counter of the code, and the
\* elements of the JavaScript array are partSteps[1..]
RECURSIVE setStep_insert(_, _, _, _)
setStep_insert(partSteps, i, stepLoc, fullName) ==
    IF i > 0 /\ ~NumLt(StringToNumber(partSteps[i]), stepLoc)
    THEN setStep_insert(setAt(partSteps, i + 1, partSteps[i]), i - 1, stepLoc, fullName)
    ELSE setAt(partSteps, i + 1, fullName)

Mut_setStep(j, part, stepName, command) ==
    LET fullName == part \o <<".">> \o stepName
        partSteps == IF part \in DOMAIN j.programParts THEN j.programParts[part] ELSE <<>>
    IN  [j EXCEPT !.program = assign(j.program, fullName, command),
                  !.programParts =
                      assign(@, part,
                             setStep_insert(partSteps, Len(partSteps),
                                            StringToNumber(fullName), fullName))]

setStep(j, part, stepName, command) ==
    LET fullName == part \o <<".">> \o stepName
        previousStep == fullName \in DOMAIN j.program
        partSteps == IF part \in DOMAIN j.programParts THEN j.programParts[part] ELSE <<>>
    IN  [j EXCEPT !.program = assign(j.program, fullName, command),
                  !.programParts =
                      IF previousStep THEN @
                      ELSE assign(@, part,
                               setStep_insert(partSteps, Len(partSteps),
                                              StringToNumber(fullName), fullName))]

\* the value of a property that an object does not have
undefined == [k |-> "undefined"]

\* Joss.getStep: this.program[fullName], with no test that it is there
getStep(j, part, stepName) ==
    LET fullName == part \o <<".">> \o stepName IN
    IF fullName \in DOMAIN j.program THEN j.program[fullName] ELSE undefined

\* Joss.get
get(j, s) ==
    IF s \in DOMAIN j.variables THEN Val(j.variables[s])
    ELSE IF s \in DOMAIN j.arrays THEN Val(Accessor(j.arrays[s]))
    ELSE IF s \in FUNCTIONS THEN Val(Builtin(s))
    ELSE Throw("nosuchvar")

(***************************************************************************)
(* Evaluation of expressions.  depth is the room left on the call stack:   *)
(* a call of a Let closure (and a Do, below) that finds none throws the    *)
(* engine's RangeError.                                                    *)
(***************************************************************************)
\* the reduce of Let.eval: o[argNames[i]] = args[i], a later name winning
fnArgsOf(argNames, args) ==
    [nm \in {argNames[i] : i \in 1..Len(args)} |->
        args[CHOOSE i \in 1..Len(args) :
                /\ argNames[i] = nm
                /\ \A k \in 1..Len(args) : argNames[k] = nm => k <= i]]

RECURSIVE Expression_eval(_, _, _, _)
RECURSIVE eval_all(_, _, _, _)
RECURSIVE ConditionalExpression_eval(_, _, _, _)
RECURSIVE VariableExpression_eval(_, _, _, _)
RECURSIVE call(_, _, _, _)

\* this.indices.map(i => i.eval(joss, fnArgs)), left to right
eval_all(es, j, fnArgs, depth) ==
    IF Len(es) = 0 THEN Val(<<>>)
    ELSE Try(Expression_eval(Head(es), j, fnArgs, depth), LAMBDA h :
             Try(eval_all(Tail(es), j, fnArgs, depth), LAMBDA t : Val(<<h.v>> \o t.v)))

\* the call of a Let function without the arity check: the formals that
\* have an argument are bound
Mut_call(res, args, j, depth) ==
    CASE res.f = "builtin" -> Val(FUNCTIONS_call(res.name, args))
      [] res.f = "array" -> JossArray_get(j.heap[res.obj], args)
      [] res.f = "let" ->
            LET k == IF Len(args) < Len(res.argNames) THEN Len(args)
                     ELSE Len(res.argNames)
            IN  IF depth = 0 THEN Throw("RangeError")
                ELSE Expression_eval(res.expression, j,
                         fnArgsOf(SubSeq(res.argNames, 1, k), SubSeq(args, 1, k)),
                         depth - 1)

\* res(...args): the closure of Let.eval, JossArray.get or a built-in
call(res, args, j, depth) ==
    CASE res.f = "builtin" -> Val(FUNCTIONS_call(res.name, args))
      [] res.f = "array" -> JossArray_get(j.heap[res.obj], args)
      [] res.f = "let" ->
            IF Len(args) # Len(res.argNames) THEN Throw("arity")
            ELSE IF depth = 0 THEN Throw("RangeError")
            ELSE Expression_eval(res.expression, j, fnArgsOf(res.argNames, args), depth - 1)

\* the lookup that reads the environment before the formals of the call
Mut_VariableExpression_eval(e, j, fnArgs, depth) ==
    Try(IF e.v \in DOMAIN j.variables \/ e.v \notin DOMAIN fnArgs THEN get(j, e.v)
        ELSE Val(fnArgs[e.v]),
        LAMBDA res :
            IF res.v.t = "fn" /\ Len(e.indices) > 0
            THEN Try(eval_all(e.indices, j, fnArgs, depth), LAMBDA args :
                     call(res.v, args.v, j, depth))
            ELSE res)

VariableExpression_eval(e, j, fnArgs, depth) ==
    Try(IF e.v \in DOMAIN fnArgs THEN Val(fnArgs[e.v]) ELSE get(j, e.v), LAMBDA res :
        IF res.v.t = "fn" /\ Len(e.indices) > 0
        THEN Try(eval_all(e.indices, j, fnArgs, depth), LAMBDA args :
                 call(res.v, args.v, j, depth))
        ELSE res)

\* the conditional with its default evaluated before the conditions
RECURSIVE Mut_ConditionalExpression_eval(_, _, _, _)
Mut_ConditionalExpression_eval(e, j, fnArgs, depth) ==
    Try(Expression_eval(e.result, j, fnArgs, depth), LAMBDA d :
        IF Len(e.conditionResults) = 0 THEN d
        ELSE Try(Expression_eval(Head(e.conditionResults).condition, j, fnArgs, depth),
                 LAMBDA c :
                     IF ToBoolean(c.v)
                     THEN Expression_eval(Head(e.conditionResults).result, j, fnArgs,
                                          depth)
                     ELSE Mut_ConditionalExpression_eval(
                              [e EXCEPT !.conditionResults = Tail(@)], j, fnArgs, depth)))

\* the for loop of ConditionalExpression.eval over the pairs still to try
ConditionalExpression_eval(e, j, fnArgs, depth) ==
    IF Len(e.conditionResults) = 0 THEN Expression_eval(e.result, j, fnArgs, depth)
    ELSE Try(Expression_eval(Head(e.conditionResults).condition, j, fnArgs, depth),
             LAMBDA c :
                 IF ToBoolean(c.v)
                 THEN Expression_eval(Head(e.conditionResults).result, j, fnArgs, depth)
                 ELSE ConditionalExpression_eval(
                          [e EXCEPT !.conditionResults = Tail(@)], j, fnArgs, depth))

BinaryExpression_eval(e, j, fnArgs, depth) ==
    Try(Expression_eval(e.lhs, j, fnArgs, depth), LAMBDA l :
        Try(Expression_eval(e.rhs, j, fnArgs, depth), LAMBDA r :
            Val(BinaryFn(e.fn, l.v, r.v))))

Expression_eval(e, j, fnArgs, depth) ==
    CASE e.k = "NumberExpression" -> Val(e.num)
      [] e.k = "VariableExpression" -> VariableExpression_eval(e, j, fnArgs, depth)
      [] e.k = "BinaryExpression" -> BinaryExpression_eval(e, j, fnArgs, depth)
      [] e.k = "ConditionalExpression" -> ConditionalExpression_eval(e, j, fnArgs, depth)

(***************************************************************************)
(* Evaluation of verbs and commands.  A result is the environment as the   *)
(* command left it and the error it threw ("none": it returned; "hang":    *)
(* it never returns).                                                      *)
(***************************************************************************)
Done(j) == [j |-> j, err |-> "none"]
Fail(j, kind) == [j |-> j, err |-> kind]

\* the rest of a command once an expression has been evaluated: an error
\* thrown by the expression ends the command, which leaves the environment j
WithValue(v, j, K(_)) == IF ~v.ok THEN Fail(j, v.err) ELSE K(v.v)

\* the rest of a command once a command it runs has returned: an error
\* thrown by that command propagates
Then(r, K(_)) == IF r.err # "none" THEN r ELSE K(r.j)

\* the string Type writes for one of its expressions
Type_string(e, j, depth) ==
    IF e.k = "QuotedString" THEN Val(e.val)
    ELSE Try(Expression_eval(e.expression, j, <<>>, depth), LAMBDA v : Val(toString(v.v)))

\* a Type that takes back what it has written when an operand throws
RECURSIVE Mut_Type_eval(_, _, _, _)
Mut_Type_eval(verb, j, i, depth) ==
    IF i > Len(verb.expressions) THEN Done(j)
    ELSE WithValue(Type_string(verb.expressions[i], j, depth),
                   [j EXCEPT !.stdout = <<>>], LAMBDA str :
             Mut_Type_eval(verb, output(output(j, str), <<"\n">>), i + 1, depth))

\* the for loop of Type.eval from expression i on
RECURSIVE Type_eval(_, _, _, _)
Type_eval(verb, j, i, depth) ==
    IF i > Len(verb.expressions) THEN Done(j)
    ELSE WithValue(Type_string(verb.expressions[i], j, depth), j, LAMBDA str :
             Type_eval(verb, output(output(j, str), <<"\n">>), i + 1, depth))

\* VariableExpression.eval_set
eval_set(target, j, value, depth) ==
    IF Len(target.indices) > 0 THEN
        WithValue(eval_all(target.indices, j, <<>>, depth), j, LAMBDA idx :
            Done(setArray(j, target.v, [i \in 1..Len(idx) |-> ToNumber(idx[i])], value)))
    ELSE Done(setVariable(j, target.v, value))

\* a Set that also forgets the stored steps
Mut_Set_eval(verb, j, depth) ==
    WithValue(Expression_eval(verb.expression, j, <<>>, depth), j, LAMBDA v :
        Then(eval_set(verb.target, j, v, depth), LAMBDA j2 :
            Done([j2 EXCEPT !.program = <<>>, !.programParts = <<>>])))

Set_eval(verb, j, depth) ==
    WithValue(Expression_eval(verb.expression, j, <<>>, depth), j, LAMBDA v :
        eval_set(verb.target, j, v, depth))

\* the closure is a new object
Let_eval(verb, j, depth) ==
    eval_set(verb.target, [j EXCEPT !.nextId = @ + 1],
             Closure(j.nextId, verb.argNames, verb.expression), depth)

If_eval(i, j, depth) ==
    Try(Expression_eval(i.expression, j, <<>>, depth), LAMBDA v : Val(ToBoolean(v.v)))

\* a progression that the comparison i < endval never stops
Diverges(i, stepval, endval) ==
    /\ NumLt(i, endval)
    /\ ~IsNaN(stepval)
    /\ \/ NumLe(stepval, Num(0))
       \/ endval = PosInf /\ IsFinite(stepval)

RECURSIVE Command_eval(_, _, _)
RECURSIVE evalDo(_, _, _)
RECURSIVE getPartSteps_loop(_, _, _, _)
RECURSIVE Do_times(_, _, _, _)
RECURSIVE Do_for(_, _, _, _)
RECURSIVE Do_range(_, _, _, _, _, _, _, _)

\* for (const step of joss.getPartSteps(this.part)) step.eval(joss), from
\* element i of the part's list on
getPartSteps_loop(verb, j, i, depth) ==
    IF i > Len(j.programParts[verb.part]) THEN Done(j)
    ELSE LET fullName == j.programParts[verb.part][i] IN
         Then(Command_eval(j.program[fullName],
                           [j EXCEPT !.trace = Append(@, fullName)], depth - 1),
              LAMBDA j2 : getPartSteps_loop(verb, j2, i + 1, depth))

\* Do.evalDo; a step or a part that is not stored is undefined, and using it
\* throws a TypeError
evalDo(verb, j, depth) ==
    IF depth = 0 THEN Fail(j, "RangeError")
    ELSE IF verb.step # <<>> THEN
        LET fullName == verb.part \o <<".">> \o verb.step IN
        IF getStep(j, verb.part, verb.step) = undefined THEN Fail(j, "TypeError")
        ELSE Command_eval(getStep(j, verb.part, verb.step),
                          [j EXCEPT !.trace = Append(@, fullName)], depth - 1)
    ELSE IF verb.part \notin DOMAIN j.programParts THEN Fail(j, "TypeError")
    ELSE getPartSteps_loop(verb, j, 1, depth)

\* the loop condition on the count without its fraction
Mut_timesLeft(i, times) == NumLt(Num(i), Trunc(ToNumber(times)))

\* the loop condition i < Number(this.times.eval(joss, {}))
timesLeft(i, times) == NumLt(Num(i), ToNumber(times))

\* for (let i = 0; i < Number(this.times.eval(joss, {})); ++i) this.evalDo(joss)
Do_times(verb, j, i, depth) ==
    WithValue(Expression_eval(verb.times, j, <<>>, depth), j, LAMBDA times :
        IF ~timesLeft(i, times) THEN Done(j)
        ELSE IF i >= MaxIter THEN Fail(j, "hang")
        ELSE Then(evalDo(verb, j, depth), LAMBDA j2 : Do_times(verb, j2, i + 1, depth)))

\* the body of the for with the unit executed before the variable is bound
Mut_Do_forBody(verb, j, v, depth) ==
    Then(evalDo(verb, j, depth), LAMBDA j2 : Done(setVariable(j2, verb.for.s, v)))

\* the body of the for of Do.eval: joss.setVariable(this.for.s, v); this.evalDo(joss)
Do_forBody(verb, j, v, depth) == evalDo(verb, setVariable(j, verb.for.s, v), depth)

\* the loop condition of a range that lets the end value through
Mut_inRange(i, endval) == NumLe(i, endval)

\* the loop condition i < endval of a range generator
inRange(i, endval) == NumLt(i, endval)

\* a range whose next value is computed from the for variable, as the unit
\* left it
RECURSIVE Mut_Do_range(_, _, _, _, _, _, _, _)
Mut_Do_range(verb, j, i, stepval, endval, g, fuel, depth) ==
    IF ~inRange(i, endval) THEN Do_for(verb, j, g, depth)
    ELSE IF fuel = 0 THEN Fail(j, "hang")
    ELSE Then(Do_forBody(verb, j, i, depth), LAMBDA j2 :
              Mut_Do_range(verb, j2, NumAdd(ToNumber(j2.variables[verb.for.s]), stepval),
                           stepval, endval, g,
                           IF fuel > 0 THEN fuel - 1 ELSE fuel, depth))

\* the loop of a range generator and of the for of Do.eval around it:
\* for (let i = start; i < endval; i += stepval) { setVariable; evalDo },
\* then the generators from g on.  fuel counts the iterations simulated of a
\* progression that cannot end (-1: the progression ends by itself).
Do_range(verb, j, i, stepval, endval, g, fuel, depth) ==
    IF ~inRange(i, endval) THEN Do_for(verb, j, g, depth)
    ELSE IF fuel = 0 THEN Fail(j, "hang")
    ELSE Then(Do_forBody(verb, j, i, depth), LAMBDA j2 :
              Do_range(verb, j2, NumAdd(i, stepval), stepval, endval, g,
                       IF fuel > 0 THEN fuel - 1 ELSE fuel, depth))

\* a range generator that produces nothing when its step is not positive
Mut_Do_rangeStart(verb, j, start, stepval, endval, g, depth) ==
    IF NumLe(stepval, Num(0)) THEN Do_for(verb, j, g, depth)
    ELSE Do_range(verb, j, start, stepval, endval, g,
                  IF Diverges(start, stepval, endval) THEN MaxIter ELSE -1, depth)

\* the start of a range generator, its end and its step once evaluated
Do_rangeStart(verb, j, start, stepval, endval, g, depth) ==
    Do_range(verb, j, start, stepval, endval, g,
             IF Diverges(start, stepval, endval) THEN MaxIter ELSE -1, depth)

\* for (const v of this.for.range.eval(joss, {})) { setVariable; evalDo }:
\* the generators are run lazily, generator g and the following ones
Do_for(verb, j, g, depth) ==
    IF g > Len(verb.for.range.generators) THEN Done(j)
    ELSE LET gen == verb.for.range.generators[g] IN
         IF gen.g = "single" THEN
             WithValue(Expression_eval(gen.e, j, <<>>, depth), j, LAMBDA v :
                 Then(Do_forBody(verb, j, v, depth), LAMBDA j2 :
                      Do_for(verb, j2, g + 1, depth)))
         ELSE
             WithValue(Expression_eval(gen.end, j, <<>>, depth), j, LAMBDA endval :
             WithValue(Expression_eval(gen.step, j, <<>>, depth), j, LAMBDA stepval :
             WithValue(Expression_eval(gen.start, j, <<>>, depth), j, LAMBDA start :
                 Do_rangeStart(verb, j, ToNumber(start), ToNumber(stepval),
                               ToNumber(endval), g + 1, depth))))

Do_eval(verb, j, depth) ==
    IF verb.times # NULL THEN Do_times(verb, j, 0, depth)
    ELSE IF verb.for # NULL THEN Do_for(verb, j, 1, depth)
    ELSE evalDo(verb, j, depth)

Verb_eval(verb, j, depth) ==
    CASE verb.k = "NoOp" -> Done(j)
      [] verb.k = "Type" -> Type_eval(verb, j, 1, depth)
      [] verb.k = "Set" -> Set_eval(verb, j, depth)
      [] verb.k = "Let" -> Let_eval(verb, j, depth)
      [] verb.k = "Do" -> Do_eval(verb, j, depth)

Command_eval(c, j, depth) ==
    IF c.ifmodifier = NULL THEN Verb_eval(c.verb, j, depth)
    ELSE WithValue(If_eval(c.ifmodifier, j, depth), j, LAMBDA guard :
             IF guard THEN Verb_eval(c.verb, j, depth) ELSE Done(j))

\* a stored line that also runs its command
Mut_StoredCommand_eval(sc, j) ==
    Command_eval(sc.command, setStep(j, sc.part, sc.step, sc.command), MaxDepth)

StoredCommand_eval(sc, j) == Done(setStep(j, sc.part, sc.step, sc.command))

\* the .eval(this) of Joss.eval_line on what parse returned
Parsed_eval(node, j) ==
    IF node.k = "StoredCommand" THEN StoredCommand_eval(node, j)
    ELSE Command_eval(node, j, MaxDepth)

\* Joss.eval_line: parse(tokenise(s)).eval(this)
eval_line(j, tokens) ==
    LET p == parse(tokens) IN
    IF ~p.ok THEN Fail(j, p.err) ELSE Parsed_eval(p.node, j)

\* an eval that goes on with the next line after a line has thrown
RECURSIVE Mut_Joss_eval(_, _)
Mut_Joss_eval(j, lines) ==
    IF Len(lines) = 0 THEN Done(j)
    ELSE Mut_Joss_eval(eval_line(j, Head(lines)).j, Tail(lines))

\* Joss.eval: the lines of the input in order; an error ends the call
RECURSIVE Joss_eval(_, _)
Joss_eval(j, lines) ==
    IF Len(lines) = 0 THEN Done(j)
    ELSE Then(eval_line(j, Head(lines)), LAMBDA j2 : Joss_eval(j2, Tail(lines)))

(***************************************************************************)
(* The session.  Its driver (the loop of joss.test.ts) calls Joss.eval     *)
(* with one input after the other, reads what the sink received and clears *)
(* it; a thrown error is caught by the driver and the session goes on.     *)
(***************************************************************************)
Init ==
    /\ variables = Joss_new.variables
    /\ arrays = Joss_new.arrays
    /\ heap = Joss_new.heap
    /\ program = Joss_new.program
    /\ programParts = Joss_new.programParts
    /\ stdout = Joss_new.stdout
    /\ nextId = Joss_new.nextId
    /\ last = [input |-> <<>>, err |-> "none", trace |-> <<>>, pre |-> Joss_new]
    /\ nlines = 0

\* the Joss object before the call
J ==
    [variables |-> variables, arrays |-> arrays, heap |-> heap, program |-> program,
     programParts |-> programParts, stdout |-> <<>>, nextId |-> nextId, trace |-> <<>>]

\* the Joss object as the call r of joss.eval(input) left it, and what the
\* driver saw of the call
Return(r, input) ==
    /\ variables' = r.j.variables
    /\ arrays' = r.j.arrays
    /\ heap' = r.j.heap
    /\ program' = r.j.program
    /\ programParts' = r.j.programParts
    /\ stdout' = r.j.stdout
    /\ nextId' = r.j.nextId
    /\ last' = [input |-> input, err |-> r.err, trace |-> r.j.trace, pre |-> J]

\* joss.eval(command); output.getAndClear()
Eval(input) ==
    /\ last.err # "hang"
    /\ Return(Joss_eval(J, input), input)
    /\ nlines' = nlines + 1

(***************************************************************************)
(* Input lines, as the token sequences handed to parse().                  *)
(***************************************************************************)
ID(raw) == Tok("ID", raw)
VAR(raw) == Tok("VAR", raw)
NUM(raw) == Tok("NUM", raw)
OP(raw) == Tok("OP", raw)
STR(raw) == Tok("STR", <<"\"">> \o raw \o <<"\"">>)
PERIOD == Tok("PERIOD", <<".">>)
COMMA == Tok("COMMA", <<",">>)
COLON == Tok("COLON", <<":">>)
SEMICOLON == Tok("SEMICOLON", <<";">>)
OPEN == Tok("OPEN_BRACKET", <<"(">>)
CLOSE == Tok("CLOSE_BRACKET", <<")">>)

kwType == ID(<<"T", "y", "p", "e">>)
kwSet == ID(<<"S", "e", "t">>)
kwLet == ID(<<"L", "e", "t">>)
kwDo == ID(<<"D", "o">>)
kwIf == ID(<<"i", "f">>)
kwTimes == ID(<<"t", "i", "m", "e", "s">>)
kwFor == ID(<<"f", "o", "r">>)
kwStep == ID(<<"s", "t", "e", "p">>)
kwPart == ID(<<"p", "a", "r", "t">>)

(***************************************************************************)
(* Sessions of stored-command registrations: the steps 1.2, 1.10, 1.05 and *)
(* 1.1 (numerically 1.05 < 1.1 = 1.10 < 1.2) and 2.1, each with one of two *)
(* commands, in any order, and Do part / Do step.                          *)
(***************************************************************************)
StoreKeys ==
    {<<"1", ".", "2">>, <<"1", ".", "1", "0">>, <<"1", ".", "0", "5">>,
     <<"1", ".", "1">>, <<"2", ".", "1">>}

StoreCommands == {<<kwType, STR(<<"a">>)>>, <<kwType, STR(<<"b">>)>>}

StoreLine(key, c) == <<NUM(key)>> \o c \o <<PERIOD>>

DoPartLine(part) == <<kwDo, kwPart, NUM(part), PERIOD>>

DoStepLine(key) == <<kwDo, kwStep, NUM(key), PERIOD>>

StoreInputs ==
    {<<StoreLine(key, c)>> : key \in StoreKeys, c \in StoreCommands}
    \cup {<<DoPartLine(<<"1">>)>>, <<DoPartLine(<<"2">>)>>, <<DoStepLine(<<"1", ".", "2">>)>>}

NextStore == nlines < MaxStoreLines /\ \E input \in StoreInputs : Eval(input)

SpecStore == Init /\ [][NextStore]_vars

\* the part of a part.step key
PartOf(fullName) == split(fullName, ".")[1]

\* the keys stored in program p under a part
KeysOf(p, part) == {k \in DOMAIN p : PartOf(k) = part}

\* the command of a StoreCommands line, as the parser builds it
TypeCommand(text) == Command(Type(<<QuotedString(text)>>), NULL)

\* what the commands stored under the keys write, one after the other
RECURSIVE OutputOf(_, _)
OutputOf(keys, p) ==
    IF Len(keys) = 0 THEN <<>>
    ELSE p[Head(keys)].verb.expressions[1].val \o <<"\n">> \o OutputOf(Tail(keys), p)

\* C1: after any sequence of registrations, a Do part P that returns has
\* executed the stored steps of part P one after another, each key exactly
\* once, in ascending order of Number(key), and the sink received what their
\* commands write in that order.
C1_DoPartAscending ==
    \A part \in {<<"1">>, <<"2">>} :
        (last.input = <<DoPartLine(part)>> /\ last.err = "none") =>
            LET keys == KeysOf(program, part)
                n == Len(last.trace)
            IN  /\ n = Cardinality(keys)
                /\ \A k \in keys : \E i \in 1..n : last.trace[i] = k
                /\ \A a, b \in 1..n :
                       a < b => NumLe(StringToNumber(last.trace[a]),
                                      StringToNumber(last.trace[b]))
                /\ stdout = OutputOf(last.trace, program)

\* a Do part 1 has run the four steps of part 1, 1.05 first and 1.2 last
C1_Witness ==
    /\ last.input = <<DoPartLine(<<"1">>)>>
    /\ last.err = "none"
    /\ Len(last.trace) = 4
    /\ last.trace[1] = <<"1", ".", "0", "5">>
    /\ last.trace[4] = <<"1", ".", "2">>

\* C2: registering at a key that is already stored replaces the command of
\* that key only and leaves every part's step sequence as it was; a Do part
\* then runs, at each position of that sequence, the command now stored.
C2_ReplaceKeepsOrder ==
    /\ \A key \in StoreKeys, text \in {<<"a">>, <<"b">>} :
           (/\ last.input = <<StoreLine(key, <<kwType, STR(text)>>)>>
            /\ key \in DOMAIN last.pre.program) =>
               /\ last.err = "none"
               /\ programParts = last.pre.programParts
               /\ DOMAIN program = DOMAIN last.pre.program
               /\ program[key] = TypeCommand(text)
               /\ \A k \in DOMAIN program \ {key} : program[k] = last.pre.program[k]
    /\ \A part \in {<<"1">>, <<"2">>} :
           (last.input = <<DoPartLine(part)>> /\ last.err = "none") =>
               /\ last.trace = programParts[part]
               /\ stdout = OutputOf(programParts[part], program)

\* step 1.10, stored with the command Type "a" between 1.05 and 1.2, has been
\* registered again with Type "b"
C2_Witness ==
    /\ last.input = <<StoreLine(<<"1", ".", "1", "0">>, <<kwType, STR(<<"b">>)>>)>>
    /\ <<"1", ".", "1", "0">> \in DOMAIN last.pre.program
    /\ last.pre.program[<<"1", ".", "1", "0">>] = TypeCommand(<<"a">>)
    /\ Len(programParts[<<"1">>]) = 3
    /\ programParts[<<"1">>][2] = <<"1", ".", "1", "0">>

(***************************************************************************)
(* Sessions of scalar, array and function bindings of the names x and a.   *)
(***************************************************************************)
\* the numeral of a natural number
n(i) == NUM(NatToString(i))

\* name(i1, ..., ik)
RECURSIVE Commas(_)
Commas(idx) ==
    IF Len(idx) = 1 THEN <<n(idx[1])>>
    ELSE <<n(idx[1]), COMMA>> \o Commas(Tail(idx))

Indexed(name, idx) == <<VAR(name), OPEN>> \o Commas(idx) \o <<CLOSE>>

SetLine(target, e) == <<kwSet>> \o target \o <<OP(<<"=">>)>> \o e \o <<PERIOD>>

TypeLine(e) == <<kwType>> \o e \o <<PERIOD>>

\* Set name(idx) = val.
ArrayWrites ==
    {[name |-> <<"a">>, idx |-> <<1>>, key |-> <<"(", "1", ")">>, val |-> 5],
     [name |-> <<"a">>, idx |-> <<1, 2>>, key |-> <<"(", "1", ",", "2", ")">>, val |-> 6],
     [name |-> <<"a">>, idx |-> <<2>>, key |-> <<"(", "2", ")">>, val |-> 7],
     [name |-> <<"x">>, idx |-> <<1>>, key |-> <<"(", "1", ")">>, val |-> 3]}

ArrayWriteLine(w) == SetLine(Indexed(w.name, w.idx), <<n(w.val)>>)

\* Type name(idx).
ArrayReads ==
    {[name |-> <<"a">>, idx |-> <<1>>, key |-> <<"(", "1", ")">>],
     [name |-> <<"a">>, idx |-> <<1, 2>>, key |-> <<"(", "1", ",", "2", ")">>],
     [name |-> <<"x">>, idx |-> <<1>>, key |-> <<"(", "1", ")">>]}

ArrayReadLine(r) == TypeLine(Indexed(r.name, r.idx))

\* Set x = 1.   Set a = 2.   Set x = a.   Let a(x) = x*x.
\* Do step 1.1 for a = 1,2.   (and 1.1 Type a.)
SetX == SetLine(<<VAR(<<"x">>)>>, <<n(1)>>)
SetA == SetLine(<<VAR(<<"a">>)>>, <<n(2)>>)
SetXA == SetLine(<<VAR(<<"x">>)>>, <<VAR(<<"a">>)>>)
LetA ==
    <<kwLet, VAR(<<"a">>), OPEN, VAR(<<"x">>), CLOSE, OP(<<"=">>),
      VAR(<<"x">>), OP(<<"*">>), VAR(<<"x">>), PERIOD>>
DoForA ==
    <<kwDo, kwStep, NUM(<<"1", ".", "1">>), kwFor, VAR(<<"a">>), OP(<<"=">>),
      n(1), COMMA, n(2), PERIOD>>
StoreTypeA == <<NUM(<<"1", ".", "1">>), kwType, VAR(<<"a">>), PERIOD>>

\* the inputs that bind a name as a scalar or a function, with the name
ScalarBindings ==
    {[line |-> SetX, name |-> <<"x">>], [line |-> SetA, name |-> <<"a">>],
     [line |-> SetXA, name |-> <<"x">>], [line |-> LetA, name |-> <<"a">>],
     [line |-> DoForA, name |-> <<"a">>]}

BindingInputs ==
    {<<b.line>> : b \in ScalarBindings}
    \cup {<<ArrayWriteLine(w)>> : w \in ArrayWrites}
    \cup {<<ArrayReadLine(r)>> : r \in ArrayReads}
    \cup {<<StoreTypeA>>}

Next == nlines < MaxLines /\ \E input \in BindingInputs : Eval(input)

Spec == Init /\ [][Next]_vars

\* C3: no name is bound both in variables (a scalar or a function) and in
\* arrays; an input that has bound a name as a scalar (Set without indices,
\* Let, the variable of Do ... for) leaves it in variables and not in arrays,
\* and an array write leaves it in arrays and not in variables.
C3_OneKindPerName ==
    /\ DOMAIN variables \cap DOMAIN arrays = {}
    /\ \A b \in ScalarBindings :
           (last.input = <<b.line>> /\ last.err = "none") =>
               b.name \in DOMAIN variables /\ b.name \notin DOMAIN arrays
    /\ \A w \in ArrayWrites :
           (last.input = <<ArrayWriteLine(w)>> /\ last.err = "none") =>
               w.name \in DOMAIN arrays /\ w.name \notin DOMAIN variables

\* Set a = 2 has been evaluated while a was an array
C3_Witness ==
    /\ last.input = <<SetA>>
    /\ <<"a">> \in DOMAIN last.pre.arrays
    /\ <<"a">> \in DOMAIN variables

\* the dimensions of the array of a name in environment j (0: a new array)
DimensionsOf(j, name) ==
    IF name \in DOMAIN j.arrays THEN j.heap[j.arrays[name]].dimensions ELSE 0

\* the entries of the array of a name in environment j
EntriesOf(j, name) ==
    IF name \in DOMAIN j.arrays THEN j.heap[j.arrays[name]].value ELSE <<>>

\* C4: an array write with a number of indices that differs from the array's
\* arity leaves the written entry as the only one and makes that number the
\* arity (with the same arity the other entries stay); reading with a number
\* of indices that is not the arity raises the dimensionality error and
\* writes nothing, reading a stored entry writes its value.
C4_ArityChangeClears ==
    /\ \A w \in ArrayWrites :
           last.input = <<ArrayWriteLine(w)>> =>
               LET old == EntriesOf(last.pre, w.name)
                   new == EntriesOf(J, w.name)
               IN  /\ last.err = "none"
                   /\ DimensionsOf(J, w.name) = Len(w.idx)
                   /\ w.key \in DOMAIN new /\ new[w.key] = Num(w.val)
                   /\ IF DimensionsOf(last.pre, w.name) # Len(w.idx)
                      THEN DOMAIN new = {w.key}
                      ELSE /\ DOMAIN new = DOMAIN old \cup {w.key}
                           /\ \A k \in DOMAIN old \ {w.key} : new[k] = old[k]
    /\ \A r \in ArrayReads :
           (last.input = <<ArrayReadLine(r)>> /\ r.name \in DOMAIN last.pre.arrays) =>
               IF DimensionsOf(last.pre, r.name) # Len(r.idx)
               THEN last.err = "dimension" /\ stdout = <<>>
               ELSE IF r.key \in DOMAIN EntriesOf(last.pre, r.name)
               THEN /\ last.err = "none"
                    /\ stdout = NumberToString(EntriesOf(last.pre, r.name)[r.key]) \o <<"\n">>
               ELSE last.err = "missing" /\ stdout = <<>>

\* Set a(1,2) = 6 has been evaluated while a was the one-dimensional array
\* holding a(1) = 5, and a(1,2) is its only entry now
C4_Witness ==
    /\ last.input = <<ArrayWriteLine([name |-> <<"a">>, idx |-> <<1, 2>>,
                                      key |-> <<"(", "1", ",", "2", ")">>, val |-> 6])>>
    /\ DimensionsOf(last.pre, <<"a">>) = 1
    /\ DOMAIN EntriesOf(last.pre, <<"a">>) = {<<"(", "1", ")">>}
    /\ EntriesOf(last.pre, <<"a">>)[<<"(", "1", ")">>] = Num(5)
    /\ DOMAIN EntriesOf(J, <<"a">>) = {<<"(", "1", ",", "2", ")">>}

(***************************************************************************)
(* Sessions of Do ... for and Do ..., E times.  The units are the steps    *)
(* 1.1 Type i. and 1.2 Type "s". of part 1.                                *)
(***************************************************************************)
Key11 == <<"1", ".", "1">>
Key12 == <<"1", ".", "2">>

StoreTypeI == <<NUM(Key11), kwType, VAR(<<"i">>), PERIOD>>
StoreTypeS == <<NUM(Key12), kwType, STR(<<"s">>), PERIOD>>

\* the terms after the first one of a for list: , v   or   (step)end
Single(v) == [c |-> "single", v |-> v]
Range(step, end) == [c |-> "range", step |-> step, end |-> end]

\* 1,3(2)9,11   3(2)9   3(2)8   5(1)2,4   1(1)3(2)7   4   and, on part 1, 1,2
ForLists ==
    {[unit |-> "step", first |-> 1, items |-> <<Single(3), Range(2, 9), Single(11)>>],
     [unit |-> "step", first |-> 3, items |-> <<Range(2, 9)>>],
     [unit |-> "step", first |-> 3, items |-> <<Range(2, 8)>>],
     [unit |-> "step", first |-> 5, items |-> <<Range(1, 2), Single(4)>>],
     [unit |-> "step", first |-> 1, items |-> <<Range(1, 3), Range(2, 7)>>],
     [unit |-> "step", first |-> 4, items |-> <<>>],
     [unit |-> "part", first |-> 1, items |-> <<Single(2)>>]}

RECURSIVE ItemTokens(_)
ItemTokens(items) ==
    IF Len(items) = 0 THEN <<>>
    ELSE (IF Head(items).c = "single" THEN <<COMMA, n(Head(items).v)>>
          ELSE <<OPEN, n(Head(items).step), CLOSE, n(Head(items).end)>>)
         \o ItemTokens(Tail(items))

\* Do step 1.1 for i = <list>.     Do part 1 for i = <list>.
ForLine(f) ==
    (IF f.unit = "step" THEN <<kwDo, kwStep, NUM(Key11)>> ELSE <<kwDo, kwPart, NUM(<<"1">>)>>)
    \o <<kwFor, VAR(<<"i">>), OP(<<"=">>), n(f.first)>> \o ItemTokens(f.items)
    \o <<PERIOD>>

\* the counts 0, 1, 2, 2.5, 3, 0.5 and 0-2 of a times modifier, with the
\* fraction num/den they denote
TimesCounts ==
    {[e |-> <<n(0)>>, num |-> 0, den |-> 1],
     [e |-> <<n(1)>>, num |-> 1, den |-> 1],
     [e |-> <<n(2)>>, num |-> 2, den |-> 1],
     [e |-> <<NUM(<<"2", ".", "5">>)>>, num |-> 5, den |-> 2],
     [e |-> <<n(3)>>, num |-> 3, den |-> 1],
     [e |-> <<NUM(<<"0", ".", "5">>)>>, num |-> 1, den |-> 2],
     [e |-> <<n(0), OP(<<"-">>), n(2)>>, num |-> -2, den |-> 1]}

\* Do step 1.2, E times.
TimesLine(t) == <<kwDo, kwStep, NUM(Key12), COMMA>> \o t.e \o <<kwTimes, PERIOD>>

DoInputs ==
    {<<StoreTypeI>>, <<StoreTypeS>>}
    \cup {<<ForLine(f)>> : f \in ForLists}
    \cup {<<TimesLine(t)>> : t \in TimesCounts}

NextDo == nlines < MaxDoLines /\ \E input \in DoInputs : Eval(input)

SpecDo == Init /\ [][NextDo]_vars

\* start, start + step, ... while less than end
RECURSIVE Progression(_, _, _)
Progression(start, step, end) ==
    IF start < end THEN <<start>> \o Progression(start + step, step, end) ELSE <<>>

\* the values of a for list whose pending first expression is start, a range
\* being followed by its end value
RECURSIVE ValuesWithEnd(_, _)
ValuesWithEnd(start, items) ==
    IF Len(items) = 0 THEN <<start>>
    ELSE IF Head(items).c = "single"
    THEN <<start>> \o ValuesWithEnd(Head(items).v, Tail(items))
    ELSE Progression(start, Head(items).step, Head(items).end)
         \o ValuesWithEnd(Head(items).end, Tail(items))

\* the values of a for list when the end of a range is not produced: pending
\* tells whether start is a term still to produce
RECURSIVE ValuesWithoutEnd(_, _, _)
ValuesWithoutEnd(start, pending, items) ==
    IF Len(items) = 0 THEN (IF pending THEN <<start>> ELSE <<>>)
    ELSE IF Head(items).c = "single"
    THEN (IF pending THEN <<start>> ELSE <<>>)
         \o ValuesWithoutEnd(Head(items).v, TRUE, Tail(items))
    ELSE Progression(start, Head(items).step, Head(items).end)
         \o ValuesWithoutEnd(Head(items).end, FALSE, Tail(items))

\* what Type i writes for each of the values
RECURSIVE TypedValues(_)
TypedValues(vs) ==
    IF Len(vs) = 0 THEN <<>>
    ELSE NumberToString(Num(Head(vs))) \o <<"\n">> \o TypedValues(Tail(vs))

\* the for lists on step 1.1 that hold a range
RangeLists == {f \in ForLists : f.unit = "step" /\ \E k \in 1..Len(f.items) : f.items[k].c = "range"}

\* C5 (as the code has it): a range term start(step)end with a positive step
\* contributes start, start+step, ... while strictly less than end, in
\* ascending order, and is then followed by the end value itself, which the
\* parser keeps as the next pending term: for i = 1,3(2)9,11 runs the unit
\* with i = 1,3,5,7,9,11.
C5_RangeThenEnd ==
    \A f \in RangeLists :
        (last.input = <<ForLine(f)>> /\ Key11 \in DOMAIN last.pre.program) =>
            /\ last.err = "none"
            /\ stdout = TypedValues(ValuesWithEnd(f.first, f.items))

\* for i = 1,3(2)9,11 has run step 1.1 with i = 1,3,5,7,9,11
C5_Witness ==
    /\ last.input = <<ForLine([unit |-> "step", first |-> 1,
                               items |-> <<Single(3), Range(2, 9), Single(11)>>])>>
    /\ last.err = "none"
    /\ stdout = <<"1", "\n", "3", "\n", "5", "\n", "7", "\n", "9", "\n", "1", "1", "\n">>

\* C5 (as stated): the end value of a range is not produced unless it is
\* written as its own term, so for i = 1,3(2)9,11 runs the unit with
\* i = 1,3,5,7,11 and never with i = 9.
C5_EndNotProduced ==
    \A f \in RangeLists :
        (last.input = <<ForLine(f)>> /\ Key11 \in DOMAIN last.pre.program) =>
            /\ last.err = "none"
            /\ stdout = TypedValues(ValuesWithoutEnd(f.first, TRUE, f.items))

\* the least integer that is not less than num/den (num > 0, den > 0)
Ceil(num, den) == (num + den - 1) \div den

\* k times the key / the text
RECURSIVE Repeat(_, _)
Repeat(x, k) == IF k <= 0 THEN <<>> ELSE x \o Repeat(x, k - 1)

UnitKeys(f, j) ==
    IF f.unit = "step" THEN <<Key11>> ELSE j.programParts[<<"1">>]

\* what the steps of the keys write while i is v
RECURSIVE UnitOutput(_, _)
UnitOutput(keys, v) ==
    IF Len(keys) = 0 THEN <<>>
    ELSE (IF Head(keys) = Key11 THEN NumberToString(Num(v)) \o <<"\n">> ELSE <<"s", "\n">>)
         \o UnitOutput(Tail(keys), v)

\* the keys run and the text written by one execution of the unit per value
RECURSIVE RunsOf(_, _)
RunsOf(keys, vs) ==
    IF Len(vs) = 0 THEN [trace |-> <<>>, out |-> <<>>]
    ELSE LET rest == RunsOf(keys, Tail(vs)) IN
         [trace |-> keys \o rest.trace, out |-> UnitOutput(keys, Head(vs)) \o rest.out]

\* the unit of a for list is stored in environment j
UnitStored(f, j) ==
    IF f.unit = "step" THEN Key11 \in DOMAIN j.program
    ELSE <<"1">> \in DOMAIN j.programParts

\* C7: Do ... for v = R takes the values of R in generation order; for each
\* it binds v as a scalar variable and then executes the unit exactly once,
\* so that each execution observes v equal to the current value, the number
\* of executions is the number of values, and v is left bound to the last one.
C7_ForBindsThenRuns ==
    \A f \in ForLists :
        (last.input = <<ForLine(f)>> /\ UnitStored(f, last.pre)) =>
            LET vs == ValuesWithEnd(f.first, f.items)
                runs == RunsOf(UnitKeys(f, last.pre), vs)
            IN  /\ last.err = "none"
                /\ last.trace = runs.trace
                /\ stdout = runs.out
                /\ <<"i">> \in DOMAIN variables /\ <<"i">> \notin DOMAIN arrays
                /\ variables[<<"i">>] = Num(vs[Len(vs)])

\* Do part 1 for i = 1,2 has run the steps 1.1 Type i and 1.2 Type "s" of
\* part 1 once with i = 1 and then once with i = 2
C7_Witness ==
    /\ last.input = <<ForLine([unit |-> "part", first |-> 1, items |-> <<Single(2)>>])>>
    /\ last.err = "none"
    /\ last.trace = <<Key11, Key12, Key11, Key12>>
    /\ stdout = <<"1", "\n", "s", "\n", "2", "\n", "s", "\n">>
    /\ variables[<<"i">>] = Num(2)

(***************************************************************************)
(* Sessions of conditional expressions (c1 : r1 ; c2 : r2 ; d) over the    *)
(* variable x.  The name u is never bound: evaluating it throws.           *)
(***************************************************************************)
\* x > k, and the unbound u
Greater(k) == [tokens |-> <<VAR(<<"x">>), OP(<<">">>), n(k)>>, kind |-> "gt", k |-> k]
Unbound == [tokens |-> <<VAR(<<"u">>)>>, kind |-> "undef", k |-> 0]
Literal(k) == [tokens |-> <<n(k)>>, kind |-> "num", k |-> k]

Conditionals ==
    [c1 : {Greater(10), Unbound}, r1 : {Literal(1), Unbound},
     c2 : {Greater(3), Unbound}, r2 : {Literal(2), Unbound},
     d : {Literal(0), Unbound}]

\* Type (c1 : r1 ; c2 : r2 ; d).
CondLine(l) ==
    TypeLine(<<OPEN>> \o l.c1.tokens \o <<COLON>> \o l.r1.tokens \o <<SEMICOLON>>
             \o l.c2.tokens \o <<COLON>> \o l.r2.tokens \o <<SEMICOLON>>
             \o l.d.tokens \o <<CLOSE>>)

\* Set x = k.
SetXTo(k) == SetLine(<<VAR(<<"x">>)>>, <<n(k)>>)

CondInputs ==
    {<<SetXTo(k)>> : k \in {2, 5, 20}} \cup {<<CondLine(l)>> : l \in Conditionals}

NextCond == nlines < MaxCondLines /\ \E input \in CondInputs : Eval(input)

SpecCond == Init /\ [][NextCond]_vars

\* the value of a result or default when it is evaluated
Evaluated(a) ==
    IF a.kind = "undef" THEN [err |-> "nosuchvar", v |-> 0] ELSE [err |-> "none", v |-> a.k]

\* the outcome of (c1 : r1 ; c2 : r2 ; d) while x is xv when the conditions
\* are evaluated in order up to the first one that holds and nothing else
\* but the result chosen is evaluated
FirstTruthy(l, xv) ==
    IF l.c1.kind = "undef" THEN Evaluated(l.c1)
    ELSE IF xv > l.c1.k THEN Evaluated(l.r1)
    ELSE IF l.c2.kind = "undef" THEN Evaluated(l.c2)
    ELSE IF xv > l.c2.k THEN Evaluated(l.r2)
    ELSE Evaluated(l.d)

\* C8: a conditional expression evaluates its conditions in source order and
\* returns the result paired with the first truthy one without evaluating a
\* later condition, another pair's result or the default (an unbound name in
\* any of those does not throw); when no condition is truthy it evaluates
\* and returns the default.  With x = 5, (x>10:1; x>3:2; 0) is 2.
C8_FirstTruthy ==
    \A l \in Conditionals :
        (last.input = <<CondLine(l)>> /\ <<"x">> \in DOMAIN last.pre.variables) =>
            LET e == FirstTruthy(l, last.pre.variables[<<"x">>].n) IN
            /\ last.err = e.err
            /\ stdout = IF e.err = "none" THEN NumberToString(Num(e.v)) \o <<"\n">>
                        ELSE <<>>

\* with x = 5, Type (x>10 : u ; x>3 : 2 ; u) has written 2: neither the
\* result of the first pair nor the default was evaluated
C8_Witness ==
    /\ last.input = <<CondLine([c1 |-> Greater(10), r1 |-> Unbound, c2 |-> Greater(3),
                                r2 |-> Literal(2), d |-> Unbound])>>
    /\ <<"x">> \in DOMAIN last.pre.variables
    /\ last.pre.variables[<<"x">>] = Num(5)
    /\ last.err = "none"
    /\ stdout = <<"2", "\n">>

(***************************************************************************)
(* Sessions of Let definitions of f and of calls of f.  The name u is      *)
(* never bound: a body that mentions it throws when it is evaluated.       *)
(***************************************************************************)
Var(name) == VariableExpression(name, <<>>)

\* Let f(x) = x*x.   Let f(x) = x*u.   Let f(a,b) = a+b.   Let f(a,b,c) = b.
LetDefs ==
    {[formals |-> <<<<"x">>>>, kind |-> "square",
      tokens |-> <<VAR(<<"x">>), OP(<<"*">>), VAR(<<"x">>)>>,
      body |-> BinaryExpression(<<"*">>, Var(<<"x">>), Var(<<"x">>))],
     [formals |-> <<<<"x">>>>, kind |-> "undef",
      tokens |-> <<VAR(<<"x">>), OP(<<"*">>), VAR(<<"u">>)>>,
      body |-> BinaryExpression(<<"*">>, Var(<<"x">>), Var(<<"u">>))],
     [formals |-> <<<<"a">>, <<"b">>>>, kind |-> "sum",
      tokens |-> <<VAR(<<"a">>), OP(<<"+">>), VAR(<<"b">>)>>,
      body |-> BinaryExpression(<<"+">>, Var(<<"a">>), Var(<<"b">>))],
     [formals |-> <<<<"a">>, <<"b">>, <<"c">>>>, kind |-> "second",
      tokens |-> <<VAR(<<"b">>)>>,
      body |-> Var(<<"b">>)]}

RECURSIVE Formals(_)
Formals(names) ==
    IF Len(names) = 1 THEN <<VAR(names[1])>>
    ELSE <<VAR(names[1]), COMMA>> \o Formals(Tail(names))

LetLine(d) ==
    <<kwLet, VAR(<<"f">>), OPEN>> \o Formals(d.formals) \o <<CLOSE, OP(<<"=">>)>>
    \o d.tokens \o <<PERIOD>>

\* Type f(4).   Type f(4,5).   Type f(2,3,4).
Calls == {<<4>>, <<4, 5>>, <<2, 3, 4>>}

CallLine(args) == TypeLine(Indexed(<<"f">>, args))

\* one line an input, and the definitions followed by the call f(4,5) in one
\* input of two lines
LetInputs ==
    {<<LetLine(d)>> : d \in LetDefs} \cup {<<CallLine(args)>> : args \in Calls}
    \cup {<<LetLine(d), CallLine(<<4, 5>>)>> : d \in LetDefs}
    \cup {<<SetXTo(3)>>}

NextLet == nlines < MaxLetLines /\ \E input \in LetInputs : Eval(input)

SpecLet == Init /\ [][NextLet]_vars

\* f is bound in environment j to the function a definition makes
Defines(j, d) ==
    /\ <<"f">> \in DOMAIN j.variables
    /\ j.variables[<<"f">>].t = "fn"
    /\ j.variables[<<"f">>].f = "let"
    /\ j.variables[<<"f">>].argNames = d.formals
    /\ j.variables[<<"f">>].expression = d.body

\* the outcome of the body of a definition with its formals bound to args
BodyOutcome(d, args) ==
    CASE d.kind = "square" -> [err |-> "none", v |-> args[1] * args[1]]
      [] d.kind = "undef" -> [err |-> "nosuchvar", v |-> 0]
      [] d.kind = "sum" -> [err |-> "none", v |-> args[1] + args[2]]
      [] d.kind = "second" -> [err |-> "none", v |-> args[2]]

\* C9: calling a Let-defined function with a number of arguments that differs
\* from its number of formals raises the arity error, the body not being
\* evaluated (a body that would throw does not) and the environment left as
\* it was; with the same number it returns the value of the body with each
\* formal bound to its argument, whatever the variables of the same name hold
\* (Let f(x) = x*x: f(4) is 16, f(4,5) is an arity error).
C9_ArityChecked ==
    \A d \in LetDefs, args \in Calls :
        (last.input = <<CallLine(args)>> /\ Defines(last.pre, d)) =>
            IF Len(args) # Len(d.formals)
            THEN last.err = "arity" /\ stdout = <<>> /\ J = last.pre
            ELSE LET e == BodyOutcome(d, args) IN
                 /\ last.err = e.err
                 /\ stdout = IF e.err = "none" THEN NumberToString(Num(e.v)) \o <<"\n">>
                             ELSE <<>>

\* Type f(4,5) has raised the arity error while f was Let f(x) = x*u
C9_Witness ==
    /\ last.input = <<CallLine(<<4, 5>>)>>
    /\ \E d \in LetDefs : d.kind = "undef" /\ Defines(last.pre, d)
    /\ last.err = "arity"

\* C10 (as stated): a line Let f(a1,...,an) = body. with n >= 1 formals is
\* accepted and binds f to a function of the n formals in order, and the
\* function of a two-formal definition called with two arguments returns the
\* value of its body.
C10_LetManyFormals ==
    /\ \A d \in LetDefs :
           last.input = <<LetLine(d)>> => last.err = "none" /\ Defines(J, d)
    /\ \A d \in LetDefs :
           (last.input = <<LetLine(d), CallLine(<<4, 5>>)>> /\ Len(d.formals) = 2) =>
               /\ last.err = "none"
               /\ Defines(J, d)
               /\ stdout = NumberToString(Num(BodyOutcome(d, <<4, 5>>).v)) \o <<"\n">>

\* Let f(a,b) = a+b. has been rejected by the parser, f being left as it was
C10_Witness ==
    /\ \E d \in LetDefs : d.kind = "sum" /\ last.input = <<LetLine(d)>>
    /\ last.err = "parse"
    /\ J = last.pre

(***************************************************************************)
(* Sessions of functions with free names: Let f(x) = x+y, Let k(b) = a+b   *)
(* and Let g(a) = k(1), the globals x, y and a, and the array m.           *)
(***************************************************************************)
\* Let name(formal) = body.
LetFn(name, formal, body) ==
    <<kwLet, VAR(name), OPEN, VAR(formal), CLOSE, OP(<<"=">>)>> \o body \o <<PERIOD>>

LetF == LetFn(<<"f">>, <<"x">>, <<VAR(<<"x">>), OP(<<"+">>), VAR(<<"y">>)>>)
LetK == LetFn(<<"k">>, <<"b">>, <<VAR(<<"a">>), OP(<<"+">>), VAR(<<"b">>)>>)
LetG == LetFn(<<"g">>, <<"a">>, <<VAR(<<"k">>), OPEN, n(1), CLOSE>>)

\* Type f(10).   Type g(10).
TypeF == TypeLine(Indexed(<<"f">>, <<10>>))
TypeG == TypeLine(Indexed(<<"g">>, <<10>>))

\* Set x = 3.   Set y = 5.   Set a = 7.   Set m(1) = 4.
ScopeSets ==
    {SetLine(<<VAR(<<"x">>)>>, <<n(3)>>), SetLine(<<VAR(<<"y">>)>>, <<n(5)>>),
     SetLine(<<VAR(<<"a">>)>>, <<n(7)>>), SetLine(Indexed(<<"m">>, <<1>>), <<n(4)>>)}

ScopeInputs ==
    {<<l>> : l \in ScopeSets} \cup {<<LetF>>, <<LetK>>, <<LetG>>, <<TypeF>>, <<TypeG>>}

NextScope == nlines < MaxScopeLines /\ \E input \in ScopeInputs : Eval(input)

SpecScope == Init /\ [][NextScope]_vars

\* the number a global holds in environment j
Global(j, name) == j.variables[name].n

\* what Type writes for an integer
Typed(v) == NumberToString(Num(v)) \o <<"\n">>

\* C11: in a call of a Let function a formal shadows the global of its name
\* (f(10) is 10 + y whatever x holds) and every other free name reads the
\* environment (f throws when y is unbound); the body of a nested call does
\* not see the caller's formals (in g(10) the body a + b of k reads the
\* global a, and throws when there is none, not the formal a = 10 of g); the
\* call leaves every variable and array as it was.
C11_FormalsAreLocal ==
    /\ (last.input = <<TypeF>> /\ <<"f">> \in DOMAIN last.pre.variables) =>
           /\ J = last.pre
           /\ IF <<"y">> \in DOMAIN last.pre.variables
              THEN last.err = "none" /\ stdout = Typed(10 + Global(last.pre, <<"y">>))
              ELSE last.err = "nosuchvar" /\ stdout = <<>>
    /\ (/\ last.input = <<TypeG>>
        /\ <<"g">> \in DOMAIN last.pre.variables
        /\ <<"k">> \in DOMAIN last.pre.variables) =>
           /\ J = last.pre
           /\ IF <<"a">> \in DOMAIN last.pre.variables
              THEN last.err = "none" /\ stdout = Typed(Global(last.pre, <<"a">>) + 1)
              ELSE last.err = "nosuchvar" /\ stdout = <<>>

\* Type f(10) has written 15 while the globals were x = 3 and y = 5, and x
\* is still 3
C11_Witness ==
    /\ last.input = <<TypeF>>
    /\ <<"x">> \in DOMAIN last.pre.variables /\ last.pre.variables[<<"x">>] = Num(3)
    /\ <<"y">> \in DOMAIN last.pre.variables
    /\ stdout = <<"1", "5", "\n">>
    /\ variables[<<"x">>] = Num(3)

(***************************************************************************)
(* Sessions of lines with and without their closing period: a command,     *)
(* then a period, nothing, or other tokens before the period.              *)
(***************************************************************************)
\* Type 1   Type "s"   Set x = 3   Let f(a) = a   Do step 1.1   Do part 1
\* Do step 1.1, 2 times   Type 1 if 1   1.1 Type 1   1.2 Set x = 3   (empty)
PeriodBases ==
    {<<kwType, n(1)>>, <<kwType, STR(<<"s">>)>>,
     <<kwSet, VAR(<<"x">>), OP(<<"=">>), n(3)>>,
     <<kwLet, VAR(<<"f">>), OPEN, VAR(<<"a">>), CLOSE, OP(<<"=">>), VAR(<<"a">>)>>,
     <<kwDo, kwStep, NUM(Key11)>>, <<kwDo, kwPart, NUM(<<"1">>)>>,
     <<kwDo, kwStep, NUM(Key11), COMMA, n(2), kwTimes>>,
     <<kwType, n(1), kwIf, n(1)>>,
     <<NUM(Key11), kwType, n(1)>>,
     <<NUM(Key12), kwSet, VAR(<<"x">>), OP(<<"=">>), n(3)>>,
     <<>>}

\* what follows the command:   .   (nothing)   4.   times.   ).
PeriodTails == {<<PERIOD>>, <<>>, <<n(4), PERIOD>>, <<kwTimes, PERIOD>>, <<CLOSE, PERIOD>>}

PeriodInputs == {<<b \o t>> : b \in PeriodBases, t \in PeriodTails}

NextPeriod == nlines < MaxPeriodLines /\ \E input \in PeriodInputs : Eval(input)

SpecPeriod == Init /\ [][NextPeriod]_vars

\* the command or stored command of the line
Parsed(tokens) ==
    IF peek(tokens).type = "NUM" THEN StoredCommand_parse(tokens) ELSE Command_parse(tokens)

\* a command was parsed and the token after it is not a period
NotClosed(c) == c.ok /\ peek(c.rest).type # "PERIOD"

\* C12: a line whose command (or stored command) is parsed and is not
\* directly followed by a period token is rejected with a parse error: no
\* verb runs, no step is stored, nothing is written.
C12_PeriodRequired ==
    (Len(last.input) = 1 /\ NotClosed(Parsed(last.input[1]))) =>
        /\ last.err = "parse"
        /\ J = last.pre
        /\ stdout = <<>>
        /\ last.trace = <<>>

\* 1.1 Type 1 is stored, and then the line  Do step 1.1  without its period
\* is rejected
C12_Witness ==
    /\ last.input = <<(<<kwDo, kwStep, NUM(Key11)>>)>>
    /\ <<"1">> \in DOMAIN programParts
    /\ last.err = "parse"
    /\ stdout = <<>>

(***************************************************************************)
(* The tokeniser: lines of text as the session receives them.              *)
(***************************************************************************)
Alpha == {"A", "B", "C", "D", "E", "F", "G", "H", "I", "J", "K", "L", "M", "N", "O", "P", "Q", "R", "S", "T", "U", "V", "W", "X", "Y", "Z",
          "a", "b", "c", "d", "e", "f", "g", "h", "i", "j", "k", "l", "m", "n", "o", "p", "q", "r", "s", "t", "u", "v", "w", "x", "y", "z"}

\* \s
Space == {" ", "\t"}

\* \w
Word == Alpha \cup {Digits[i] : i \in 1..10} \cup {"_"}

\* [0-9.]
NumChars == {Digits[i] : i \in 1..10} \cup {"."}

\* [-+*/^=<>]
OpChars == {"-", "+", "*", "/", "^", "=", "<", ">"}

\* the length of the longest prefix of s made of characters of class
RECURSIVE Run(_, _)
Run(s, class) ==
    IF Len(s) = 0 \/ Head(s) \notin class THEN 0 ELSE 1 + Run(Tail(s), class)

startsWith(s, p) == Len(s) >= Len(p) /\ SubSeq(s, 1, Len(p)) = p

endsWith(s, p) == Len(s) >= Len(p) /\ SubSeq(s, Len(s) - Len(p) + 1, Len(s)) = p

\* the position of the last double quote of s, 0 when there is none
LastQuote(s) ==
    IF \E i \in 1..Len(s) : s[i] = "\"" THEN CHOOSE i \in 1..Len(s) :
        s[i] = "\"" /\ \A k \in (i + 1)..Len(s) : s[k] # "\""
    ELSE 0

\* one match of TOKEN_REGEX at the start of a non-empty s: the alternatives
\* are tried in the order of the token types (SPACE, ID, VAR, NUM, OP, STR,
\* PAREN, COMMA, PERIOD, OTHER) and the first that matches wins
TOKEN_TYPES(s) ==
    IF Head(s) \in Space THEN [type |-> "SPACE", len |-> Run(s, Space)]
    ELSE IF startsWith(s, <<"T", "y", "p", "e">>) THEN [type |-> "ID", len |-> 4]
    ELSE IF startsWith(s, <<"S", "e", "t">>) THEN [type |-> "ID", len |-> 3]
    ELSE IF Head(s) \in Alpha THEN [type |-> "VAR", len |-> 1 + Run(Tail(s), Word)]
    ELSE IF Head(s) \in NumChars THEN [type |-> "NUM", len |-> Run(s, NumChars)]
    ELSE IF startsWith(s, <<">", "=">>) \/ startsWith(s, <<"<", "=">>)
         THEN [type |-> "OP", len |-> 2]
    ELSE IF Head(s) \in OpChars THEN [type |-> "OP", len |-> 1]
    ELSE IF Head(s) = "\"" /\ LastQuote(Tail(s)) > 0
         THEN [type |-> "STR", len |-> 1 + LastQuote(Tail(s))]
    ELSE IF Head(s) \in {"(", ")"} THEN [type |-> "PAREN", len |-> 1]
    ELSE IF Head(s) = "," THEN [type |-> "COMMA", len |-> 1]
    ELSE IF Head(s) = "." THEN [type |-> "PERIOD", len |-> 1]
    ELSE [type |-> "OTHER", len |-> 1]

\* the token of a match, none for white space
Yield(s, m) == IF m.type = "SPACE" THEN <<>> ELSE <<Tok(m.type, SubSeq(s, 1, m.len))>>

\* the while loop of _tokenise
RECURSIVE tokenise_loop(_)
tokenise_loop(s) ==
    IF Len(s) = 0 THEN <<>>
    ELSE Yield(s, TOKEN_TYPES(s))
         \o tokenise_loop(SubSeq(s, TOKEN_TYPES(s).len + 1, Len(s)))

\* String.prototype.trim
trim(s) ==
    SubSeq(s, Run(s, Space) + 1, Len(s) - Run([i \in 1..Len(s) |-> s[Len(s) + 1 - i]], Space))

\* _tokenise: the tokens of a line; none for a comment
_tokenise(s) ==
    IF Len(trim(s)) = 0 \/ startsWith(trim(s), <<"*">>) \/ endsWith(trim(s), <<"*">>)
    THEN <<>>
    ELSE tokenise_loop(trim(s))

\* tokenise: the iterator over the tokens, whose terminal is END
tokenise(s) == _tokenise(s)

(***************************************************************************)
(* Sessions of lines of text.                                              *)
(***************************************************************************)
\* Set x = 3   Type x*x   Type 3   Set y = 2.5   Type "a"   1.1 Type x   Do part 1   Type (x)
\* Type 1, 2   Do step 1.1
TextCommands ==
    {<<"S", "e", "t", " ", "x", " ", "=", " ", "3">>,
     <<"T", "y", "p", "e", " ", "x", "*", "x">>,
     <<"T", "y", "p", "e", " ", "3">>,
     <<"S", "e", "t", " ", "y", " ", "=", " ", "2", ".", "5">>,
     <<"T", "y", "p", "e", " ", "\"", "a", "\"">>,
     <<"1", ".", "1", " ", "T", "y", "p", "e", " ", "x">>,
     <<"D", "o", " ", "p", "a", "r", "t", " ", "1">>,
     <<"T", "y", "p", "e", " ", "(", "x", ")">>,
     <<"T", "y", "p", "e", " ", "1", ",", " ", "2">>,
     <<"D", "o", " ", "s", "t", "e", "p", " ", "1", ".", "1">>}

\* how the line ends:   .   (space) .   (nothing)
TextEndings == {<<".">>, <<" ", ".">>, <<>>}

\* the commands with their endings, a comment and the empty line
Texts ==
    {c \o e : c \in TextCommands, e \in TextEndings}
    \cup {<<"*", " ", "n", "o", "t", "e">>, <<>>}

NextText == nlines < MaxTextLines /\ \E text \in Texts : Eval(<<tokenise(text)>>)

SpecText == Init /\ [][NextText]_vars

\* Set x = 3.
TextSetX == <<"S", "e", "t", " ", "x", " ", "=", " ", "3", ".">>

\* Type x*x.
TextTypeXX == <<"T", "y", "p", "e", " ", "x", "*", "x", ".">>

GuardVerbs ==
    {<<kwType, n(1)>>,
     <<kwSet, VAR(<<"x">>), OP(<<"=">>), n(3)>>,
     <<kwLet, VAR(<<"f">>), OPEN, VAR(<<"a">>), CLOSE, OP(<<"=">>), VAR(<<"a">>)>>,
     <<kwDo, kwStep, NUM(Key12)>>,
     <<kwDo, kwStep, NUM(Key12), COMMA, n(2), kwTimes>>}

\* Do step 1.2 for i = 1,2
GuardDoFor == <<kwDo, kwStep, NUM(Key12), kwFor, VAR(<<"i">>), OP(<<"=">>), n(1), COMMA, n(2)>>

IfFalse == <<kwIf, n(0)>>
IfTrue == <<kwIf, n(1)>>
IfUnbound == <<kwIf, VAR(<<"z">>)>>

Guards == {<<>>, IfTrue, IfFalse, IfUnbound}

GuardInputs ==
    {<<v \o g \o <<PERIOD>>>> : v \in GuardVerbs \cup {GuardDoFor}, g \in Guards}
    \cup {<<StoreTypeS>>}

NextGuard == nlines < MaxGuardLines /\ \E input \in GuardInputs : Eval(input)

SpecGuard == Init /\ [][NextGuard]_vars

\* for the verbs given: the guard is evaluated before the verb (an unbound
\* name in it throws and nothing has run), and on a falsy guard the verb does
\* not run: nothing is written and the environment is as it was
GuardDecides(verbs) ==
    \A v \in verbs :
        /\ last.input = <<v \o IfFalse \o <<PERIOD>>>> =>
               last.err = "none" /\ stdout = <<>> /\ J = last.pre
        /\ last.input = <<v \o IfUnbound \o <<PERIOD>>>> =>
               last.err = "nosuchvar" /\ stdout = <<>> /\ J = last.pre

\* C14: for every verb (Type, Set, Let, Do on its own, with times and with
\* for) a trailing if guard is evaluated before the verb, and when it is
\* falsy the verb does not run: no output, environment unchanged.
C14_GuardEveryVerb == GuardDecides(GuardVerbs \cup {GuardDoFor})

\* step 1.2 is stored and Do step 1.2 for i = 1,2 if 0. has run it twice and
\* left i bound to 2
C14_Witness ==
    /\ last.input = <<GuardDoFor \o IfFalse \o <<PERIOD>>>>
    /\ last.err = "none"
    /\ stdout = <<"s", "\n", "s", "\n">>
    /\ <<"i">> \in DOMAIN variables /\ variables[<<"i">>] = Num(2)
    /\ <<"i">> \notin DOMAIN last.pre.variables

\* the guard decides for Type, Set, Let, and Do on its own and with times
GuardedVerbs == GuardDecides(GuardVerbs)

(***************************************************************************)
(* Sessions of stored commands that name the unbound q and z: they are     *)
(* stored at 1.1 and 1.2, q and z are set or not, and Do runs them.        *)
(***************************************************************************)
\* Type q   Type 1 if z   Set x = q+1   Type "s"
DeferTypeQ == <<kwType, VAR(<<"q">>)>>
DeferIfZ == <<kwType, n(1), kwIf, VAR(<<"z">>)>>
DeferSetX == <<kwSet, VAR(<<"x">>), OP(<<"=">>), VAR(<<"q">>), OP(<<"+">>), n(1)>>
DeferCommands == {DeferTypeQ, DeferIfZ, DeferSetX, <<kwType, STR(<<"s">>)>>}

\* Set q = 4.   Set z = 1.   Set m(1) = 2.
DeferSets ==
    {SetLine(<<VAR(<<"q">>)>>, <<n(4)>>), SetLine(<<VAR(<<"z">>)>>, <<n(1)>>),
     SetLine(Indexed(<<"m">>, <<1>>), <<n(2)>>)}

DeferInputs ==
    {<<StoreLine(Key11, c)>> : c \in DeferCommands}
    \cup {<<StoreLine(Key12, DeferTypeQ)>>}
    \cup {<<l>> : l \in DeferSets}
    \cup {<<DoStepLine(Key11)>>, <<DoPartLine(<<"1">>)>>}

NextDefer == nlines < MaxDeferLines /\ \E input \in DeferInputs : Eval(input)

SpecDefer == Init /\ [][NextDefer]_vars

\* the Command the parser builds from the tokens c
CommandOf(c) == Command_parse(c \o <<PERIOD>>).node

\* C15: a line that begins with a part.step number only puts its command
\* into the program store: nothing is written, no variable or array changes,
\* and neither the guard nor an operand is evaluated, so a command that names
\* undefined variables is accepted; it fails when a Do runs it.
C15_StoreOnlyStores ==
    /\ \A key \in {Key11, Key12}, c \in DeferCommands :
           last.input = <<StoreLine(key, c)>> =>
               /\ last.err = "none"
               /\ stdout = <<>>
               /\ last.trace = <<>>
               /\ variables = last.pre.variables
               /\ arrays = last.pre.arrays
               /\ heap = last.pre.heap
               /\ nextId = last.pre.nextId
               /\ DOMAIN program = DOMAIN last.pre.program \cup {key}
               /\ program[key] = CommandOf(c)
               /\ \A k \in DOMAIN program \ {key} : program[k] = last.pre.program[k]
    /\ (last.input = <<DoStepLine(Key11)>> /\ Key11 \in DOMAIN last.pre.program) =>
           /\ (last.pre.program[Key11] \in {CommandOf(DeferTypeQ), CommandOf(DeferSetX)}
               /\ <<"q">> \notin DOMAIN last.pre.variables) =>
                  last.err = "nosuchvar" /\ stdout = <<>> /\ variables = last.pre.variables
           /\ (last.pre.program[Key11] = CommandOf(DeferIfZ)
               /\ <<"z">> \notin DOMAIN last.pre.variables) =>
                  last.err = "nosuchvar" /\ stdout = <<>>
           /\ (last.pre.program[Key11] = CommandOf(DeferTypeQ)
               /\ <<"q">> \in DOMAIN last.pre.variables) =>
                  last.err = "none" /\ stdout = <<"4", "\n">>

\* 1.1 Type 1 if z. was accepted while z was unbound, and the Do step 1.1
\* that followed failed on z
C15_Witness ==
    /\ last.input = <<DoStepLine(Key11)>>
    /\ Key11 \in DOMAIN program /\ program[Key11] = CommandOf(DeferIfZ)
    /\ <<"z">> \notin DOMAIN variables
    /\ last.err = "nosuchvar"
    /\ last.trace = <<Key11>>

(***************************************************************************)
(* Sessions of commands that fail part-way: Type 1, q on the unbound q,    *)
(* and part 1 whose step 1.1 writes or sets x and whose step 1.2 fails.    *)
(***************************************************************************)
\* Type 1, q.   Type x.   Set q = 4.
TypeOneQ == TypeLine(<<n(1), COMMA, VAR(<<"q">>)>>)
TypeX == TypeLine(<<VAR(<<"x">>)>>)
SetQ == SetLine(<<VAR(<<"q">>)>>, <<n(4)>>)

\* Set x = 3   Type "s"   at 1.1;   Type q   Do step 2.1   at 1.2
PartialSetX == <<kwSet, VAR(<<"x">>), OP(<<"=">>), n(3)>>
PartialTypeS == <<kwType, STR(<<"s">>)>>
PartialDo == <<kwDo, kwStep, NUM(<<"2", ".", "1">>)>>

PartialInputs ==
    {<<TypeOneQ>>, <<TypeX>>, <<SetQ>>, <<DoPartLine(<<"1">>)>>,
     <<StoreLine(Key11, PartialSetX)>>, <<StoreLine(Key11, PartialTypeS)>>,
     <<StoreLine(Key12, DeferTypeQ)>>, <<StoreLine(Key12, PartialDo)>>}

NextPartial == nlines < MaxPartialLines /\ \E input \in PartialInputs : Eval(input)

SpecPartial == Init /\ [][NextPartial]_vars

\* steps 1.1 and 1.2 of the environment j hold the commands c1 and c2
Holds(j, c1, c2) ==
    /\ Key11 \in DOMAIN j.program /\ j.program[Key11] = CommandOf(c1)
    /\ Key12 \in DOMAIN j.program /\ j.program[Key12] = CommandOf(c2)

\* C16: when a command throws part-way (a later operand of Type, or a later
\* step of the part a Do runs, is undefined) the text written before and the
\* bindings made before remain, and the session goes on (no error here is
\* one after which the driver gets no further call in): the next line is
\* evaluated against what the failed command left.
C16_NoRollback ==
    /\ (last.input = <<TypeOneQ>> /\ <<"q">> \notin DOMAIN last.pre.variables) =>
           last.err = "nosuchvar" /\ stdout = <<"1", "\n">> /\ J = last.pre
    /\ (/\ last.input = <<DoPartLine(<<"1">>)>>
        /\ <<"q">> \notin DOMAIN last.pre.variables
        /\ Holds(last.pre, PartialSetX, DeferTypeQ)) =>
           /\ last.err = "nosuchvar"
           /\ last.trace = <<Key11, Key12>>
           /\ variables = assign(last.pre.variables, <<"x">>, Num(3))
           /\ stdout = <<>>
    /\ (last.input = <<DoPartLine(<<"1">>)>> /\ Holds(last.pre, PartialSetX, PartialDo)) =>
           /\ last.err = "TypeError"
           /\ last.trace = <<Key11, Key12>>
           /\ variables = assign(last.pre.variables, <<"x">>, Num(3))
    /\ (last.input = <<DoPartLine(<<"1">>)>> /\ Holds(last.pre, PartialTypeS, PartialDo)) =>
           /\ last.err = "TypeError"
           /\ stdout = <<"s", "\n">>
           /\ variables = last.pre.variables
    /\ last.input = <<TypeX>> =>
           IF <<"x">> \in DOMAIN last.pre.variables
           THEN last.err = "none" /\ stdout = <<"3", "\n">>
           ELSE last.err = "nosuchvar" /\ stdout = <<>>
    /\ last.err # "hang"

\* Type x. has written 3 although only the Do part 1. that failed at step
\* 1.2 (Type q, q never bound) could have set x
C16_Witness ==
    /\ last.input = <<TypeX>>
    /\ stdout = <<"3", "\n">>
    /\ <<"q">> \notin DOMAIN variables
    /\ Holds(J, PartialSetX, DeferTypeQ)

(***************************************************************************)
(* Sessions of Type on expressions of two operators: 8 p 4 q 2 for every   *)
(* pair of operators p and q, and the same with brackets around either     *)
(* half; 2+3*4, 8-3-2 and (2+3)*4; and a comparison (a<b) set equal or     *)
(* unequal to a number.                                                    *)
(***************************************************************************)
Operators == DOMAIN BINARY_OPERATORS

\* 8 p 4 q 2   (8 p 4) q 2   8 p (4 q 2)
Flat(p, q) == <<n(8), OP(p), n(4), OP(q), n(2)>>
BracketLeft(p, q) == <<OPEN, n(8), OP(p), n(4), CLOSE, OP(q), n(2)>>
BracketRight(p, q) == <<n(8), OP(p), OPEN, n(4), OP(q), n(2), CLOSE>>

\* 2+3*4   8-3-2   (2+3)*4
Example14 == <<n(2), OP(<<"+">>), n(3), OP(<<"*">>), n(4)>>
Example3 == <<n(8), OP(<<"-">>), n(3), OP(<<"-">>), n(2)>>
Example20 == <<OPEN, n(2), OP(<<"+">>), n(3), CLOSE, OP(<<"*">>), n(4)>>

\* (a<b) op k   k op (a<b)   for op one of = and !=
BoolNum(a, b, op, k) == <<OPEN, n(a), OP(<<"<">>), n(b), CLOSE, OP(op), n(k)>>
NumBool(k, op, a, b) == <<n(k), OP(op), OPEN, n(a), OP(<<"<">>), n(b), CLOSE>>

EqInputs ==
    {<<TypeLine(BoolNum(a, b, op, k))>> :
        a \in 1..2, b \in 1..2, op \in {<<"=">>, <<"!", "=">>}, k \in 0..2}
    \cup {<<TypeLine(NumBool(k, op, a, b))>> :
        a \in 1..2, b \in 1..2, op \in {<<"=">>, <<"!", "=">>}, k \in 0..2}

PrecInputs ==
    EqInputs \cup
    {<<TypeLine(Flat(p, q))>> : p \in Operators, q \in Operators}
    \cup {<<TypeLine(BracketLeft(p, q))>> : p \in Operators, q \in Operators}
    \cup {<<TypeLine(BracketRight(p, q))>> : p \in Operators, q \in Operators}
    \cup {<<TypeLine(Example14)>>, <<TypeLine(Example3)>>, <<TypeLine(Example20)>>}

NextPrec == nlines < MaxPrecLines /\ \E input \in PrecInputs : Eval(input)

SpecPrec == Init /\ [][NextPrec]_vars

\* the level of an operator, lowest first: or; and; = !=; < > <= >=; + -; * /
Level(op) ==
    CASE op = <<"o", "r">> -> 0
      [] op = <<"a", "n", "d">> -> 1
      [] op \in {<<"=">>, <<"!", "=">>} -> 2
      [] op \in {<<"<">>, <<">">>, <<"<", "=">>, <<">", "=">>} -> 3
      [] op \in {<<"+">>, <<"-">>} -> 4
      [] op \in {<<"*">>, <<"/">>} -> 5

\* what Type writes for (a p b) q c and for a p (b q c)
LeftFirst(a, p, b, q, c) ==
    toString(BinaryFn(q, BinaryFn(p, Num(a), Num(b)), Num(c))) \o <<"\n">>
RightFirst(a, p, b, q, c) ==
    toString(BinaryFn(p, Num(a), BinaryFn(q, Num(b), Num(c)))) \o <<"\n">>

\* the trees of the expressions
Binary(op, lhs, rhs) == BinaryExpression(op, lhs, rhs)
Literal8 == NumberExpression(Num(8))
Literal4 == NumberExpression(Num(4))
Literal2 == NumberExpression(Num(2))

\* C17: the operator levels are, lowest first, or; and; = and !=; <, >, <=
\* and >=; + and -; * and /.  An operator of a higher level binds tighter and
\* operators of one level group from left to right (2+3*4 is 14, 8-3-2 is
\* 3); a bracketed sub-expression is evaluated as a unit ((2+3)*4 is 20).
C17_Precedence ==
    /\ \A p \in Operators, q \in Operators :
           /\ last.input = <<TypeLine(Flat(p, q))>> =>
                  /\ last.err = "none"
                  /\ stdout = IF Level(q) > Level(p) THEN RightFirst(8, p, 4, q, 2)
                              ELSE LeftFirst(8, p, 4, q, 2)
                  /\ Expression_parse(Flat(p, q)).node =
                         IF Level(q) > Level(p)
                         THEN Binary(p, Literal8, Binary(q, Literal4, Literal2))
                         ELSE Binary(q, Binary(p, Literal8, Literal4), Literal2)
           /\ last.input = <<TypeLine(BracketLeft(p, q))>> =>
                  last.err = "none" /\ stdout = LeftFirst(8, p, 4, q, 2)
           /\ last.input = <<TypeLine(BracketRight(p, q))>> =>
                  last.err = "none" /\ stdout = RightFirst(8, p, 4, q, 2)
    /\ last.input = <<TypeLine(Example14)>> => stdout = <<"1", "4", "\n">>
    /\ last.input = <<TypeLine(Example3)>> => stdout = <<"3", "\n">>
    /\ last.input = <<TypeLine(Example20)>> => stdout = <<"2", "0", "\n">>

\* Type 8-4*2. has written 0, where grouping from the left would give 8
C17_Witness ==
    /\ last.input = <<TypeLine(Flat(<<"-">>, <<"*">>))>>
    /\ stdout = <<"0", "\n">>
    /\ LeftFirst(8, <<"-">>, 4, <<"*">>, 2) = <<"8", "\n">>

\* C18: = and != compare without coercion: a boolean and a number are never
\* equal under =, whichever side the boolean is on ((1<2) = 1 is false and
\* (1<2) != 1 is true).
C18_NoCoercion ==
    \A a \in 1..2, b \in 1..2, k \in 0..2 :
        /\ last.input \in {<<TypeLine(BoolNum(a, b, <<"=">>, k))>>,
                           <<TypeLine(NumBool(k, <<"=">>, a, b))>>} =>
               stdout = <<"f", "a", "l", "s", "e", "\n">>
        /\ last.input \in {<<TypeLine(BoolNum(a, b, <<"!", "=">>, k))>>,
                           <<TypeLine(NumBool(k, <<"!", "=">>, a, b))>>} =>
               stdout = <<"t", "r", "u", "e", "\n">>

\* Type (1<2) = 1. has written true
C18_Witness ==
    /\ last.input = <<TypeLine(BoolNum(1, 2, <<"=">>, 1))>>
    /\ last.err = "none"
    /\ stdout = <<"t", "r", "u", "e", "\n">>

(***************************************************************************)
(* Sessions of Do step 1.1 for i = start(step)3 with the steps 0, 0-1, 0-2 *)
(* and 1 and the starts 1, 3 and 5, on the step 1.1 Type i.                *)
(***************************************************************************)
\* the expression of a step: k, or 0-k for a negative one
StepTokens(step) == IF step >= 0 THEN <<n(step)>> ELSE <<n(0), OP(<<"-">>), n(0 - step)>>

\* Do step 1.1 for i = start(step)end.
RangeLine(start, step, end) ==
    <<kwDo, kwStep, NUM(Key11), kwFor, VAR(<<"i">>), OP(<<"=">>), n(start), OPEN>>
    \o StepTokens(step) \o <<CLOSE, n(end), PERIOD>>

RangeStarts == {1, 3, 5}
RangeSteps == {0, -1, -2, 1}
\* the end of every range
RangeEnds == {3}

RangeInputs ==
    {<<RangeLine(s, step, e)>> : s \in RangeStarts, step \in RangeSteps, e \in RangeEnds}
    \cup {<<StoreTypeI>>, <<TypeLine(<<VAR(<<"i">>)>>)>>}

NextRange == nlines < MaxRangeLines /\ \E input \in RangeInputs : Eval(input)

SpecRange == Init /\ [][NextRange]_vars

\* what step 1.1 writes for the first k values of start, start+step, ...
RECURSIVE TypedFrom(_, _, _)
TypedFrom(start, step, k) ==
    IF k = 0 THEN <<>> ELSE Typed(start) \o TypedFrom(start + step, step, k - 1)

\* C19: for start(step)end with a step that is zero or negative, the
\* generator produces no value of the progression when start >= end (the Do
\* runs its step only for the end value that follows the range), and never
\* stops when start < end (the Do does not return, having run its step for
\* start, start+step, ...): i < end is the only test, the sign of the step
\* is not looked at.
C19_NonPositiveStep ==
    \A s \in RangeStarts, step \in {k \in RangeSteps : k <= 0}, e \in RangeEnds :
        (/\ last.input = <<RangeLine(s, step, e)>>
         /\ Key11 \in DOMAIN last.pre.program) =>
            IF s >= e
            THEN /\ last.err = "none"
                 /\ last.trace = <<Key11>>
                 /\ stdout = Typed(e)
            ELSE /\ last.err = "hang"
                 /\ last.trace = [k \in 1..MaxIter |-> Key11]
                 /\ stdout = TypedFrom(s, step, MaxIter)
                 /\ \A k \in 0..MaxIter : s + k * step < e

\* Do step 1.1 for i = 1(0-1)3. is still running after it has written 1, 0
\* and -1
C19_Witness ==
    /\ last.input = <<RangeLine(1, -1, 3)>>
    /\ last.err = "hang"
    /\ SubSeq(stdout, 1, 7) = <<"1", "\n", "0", "\n", "-", "1", "\n">>

\* Do step 1.2.   Do step 1.2, 2 times.   Do step 1.2 for i = 1,2.
DoStepForms ==
    {<<kwDo, kwStep, NUM(Key12)>>,
     <<kwDo, kwStep, NUM(Key12), COMMA, n(2), kwTimes>>,
     GuardDoFor}

\* C20: getStep(part, step) fails with an undefined-step error when no step
\* is stored at part.step, so a Do step P.S for a step that is not stored
\* raises an error, runs nothing and leaves the output and the environment
\* as they were.
C20_UndefinedStepFails ==
    \A d \in DoStepForms :
        (last.input = <<d \o <<PERIOD>>>> /\ Key12 \notin DOMAIN last.pre.program) =>
            /\ getStep(last.pre, <<"1">>, <<"2">>) # undefined
            /\ last.err # "none"
            /\ last.trace = <<>>
            /\ stdout = <<>>
            /\ J = last.pre

\* Do step 1.2 for i = 1,2. on the unstored step 1.2 has thrown the
\* TypeError of a call on undefined, after it had bound i to 1
C20_Witness ==
    /\ last.input = <<GuardDoFor \o <<PERIOD>>>>
    /\ getStep(last.pre, <<"1">>, <<"2">>) = undefined
    /\ last.err = "TypeError"
    /\ <<"i">> \notin DOMAIN last.pre.variables
    /\ <<"i">> \in DOMAIN variables /\ variables[<<"i">>] = Num(1)

\* on the unstored step 1.2, Do step 1.2 alone or with times throws the
\* TypeError, runs nothing and changes nothing
UnstoredStepThrows ==
    \A d \in DoStepForms \ {GuardDoFor} :
        (last.input = <<d \o <<PERIOD>>>> /\ Key12 \notin DOMAIN last.pre.program) =>
            last.err = "TypeError" /\ last.trace = <<>> /\ stdout = <<>> /\ J = last.pre

(***************************************************************************)
(* Sessions of calls of Joss.eval with one, two or three lines: Set x = 3, *)
(* Set x = 5, Type x, Type q on the never bound q, and comment lines.      *)
(***************************************************************************)
TypeQ == TypeLine(<<VAR(<<"q">>)>>)

CallLines == {SetXTo(3), SetXTo(5), TypeX, TypeQ}

\* the empty line, blanks,  * note   and   note *
CommentTexts ==
    {<<>>, <<" ", " ">>, <<"*", " ", "n", "o", "t", "e">>, <<"n", "o", "t", "e", " ", "*">>}

CallInputs ==
    {<<a>> : a \in CallLines} \cup {<<a, b>> : a \in CallLines, b \in CallLines}
    \cup {<<SetXTo(3), TypeQ, SetXTo(5)>>, <<TypeX, SetXTo(5), TypeX>>}
    \cup {<<tokenise(t)>> : t \in CommentTexts}
    \cup {<<SetXTo(3), tokenise(t)>> : t \in CommentTexts}
    \cup {<<tokenise(t), SetXTo(3)>> : t \in CommentTexts}

NextCall == nlines < MaxCalls /\ \E input \in CallInputs : Eval(input)

SpecCall == Init /\ [][NextCall]_vars

\* x is bound to the number k in the variables vs
XIs(vs, k) == <<"x">> \in DOMAIN vs /\ vs[<<"x">>] = Num(k)

\* C21: a line that is empty, or whose trimmed text starts or ends with *,
\* gives no token and is a no-op: alone, after another line of the same
\* call (the empty line after a trailing newline) or before one, it raises
\* no error, writes nothing and leaves the environment as it was.
C21_CommentIsNoOp ==
    \A t \in CommentTexts :
        /\ tokenise(t) = <<>>
        /\ last.input = <<tokenise(t)>> =>
               last.err = "none" /\ stdout = <<>> /\ J = last.pre
        /\ last.input = <<SetXTo(3), tokenise(t)>> =>
               last.err = "none" /\ stdout = <<>> /\ XIs(variables, 3)
        /\ last.input = <<tokenise(t), SetXTo(3)>> =>
               last.err = "none" /\ stdout = <<>> /\ XIs(variables, 3)

\* the call with the line Set x = 3. and the empty line after it has bound
\* x and has then thrown the parse error of the empty line
C21_Witness ==
    /\ last.input = <<SetXTo(3), tokenise(<<>>)>>
    /\ <<"x">> \notin DOMAIN last.pre.variables
    /\ last.err = "parse"
    /\ XIs(variables, 3)

\* C24: Joss.eval takes the lines of its input in order and finishes each
\* before the next: a line sees what the lines before it did, and when a
\* line throws, the lines after it in the call are not evaluated, the error
\* reaches the caller and what the earlier lines did remains.
C24_LinesInOrder ==
    /\ \A k \in {3, 5} :
        /\ last.input = <<SetXTo(k), TypeX>> =>
               last.err = "none" /\ stdout = Typed(k) /\ XIs(variables, k)
        /\ last.input = <<TypeX, SetXTo(k)>> =>
               IF <<"x">> \in DOMAIN last.pre.variables
               THEN /\ last.err = "none"
                    /\ stdout = Typed(Global(last.pre, <<"x">>))
                    /\ XIs(variables, k)
               ELSE last.err = "nosuchvar" /\ stdout = <<>> /\ J = last.pre
        /\ last.input = <<SetXTo(k), TypeQ>> =>
               last.err = "nosuchvar" /\ stdout = <<>> /\ XIs(variables, k)
        /\ \A k2 \in {3, 5} : last.input = <<SetXTo(k), SetXTo(k2)>> =>
               last.err = "none" /\ XIs(variables, k2)
    /\ \A b \in CallLines : last.input = <<TypeQ, b>> =>
           last.err = "nosuchvar" /\ stdout = <<>> /\ J = last.pre
    /\ last.input = <<SetXTo(3), TypeQ, SetXTo(5)>> =>
           last.err = "nosuchvar" /\ stdout = <<>> /\ XIs(variables, 3)
    /\ (last.input = <<TypeX, SetXTo(5), TypeX>> /\ <<"x">> \in DOMAIN last.pre.variables) =>
           /\ last.err = "none"
           /\ stdout = Typed(Global(last.pre, <<"x">>)) \o Typed(5)
           /\ XIs(variables, 5)

\* the call Set x = 3. / Type q. / Set x = 5. on x = 5 has stopped at its
\* second line with x = 3
C24_Witness ==
    /\ last.input = <<SetXTo(3), TypeQ, SetXTo(5)>>
    /\ XIs(last.pre.variables, 5)
    /\ last.err = "nosuchvar"
    /\ XIs(variables, 3)

(***************************************************************************)
(* Sessions of Do step 1.1 for i = 1,2 followed by its period, by other    *)
(* tokens and the period, or by the end of the line, on 1.1 Type i.        *)
(***************************************************************************)
\* Do step 1.1 for i = 1,2
ForOneTwo == <<kwDo, kwStep, NUM(Key11), kwFor, VAR(<<"i">>), OP(<<"=">>), n(1), COMMA, n(2)>>

\* tokens that are not of the grammar of a range, and the period:
\* 4.   times.   ).   if 0.   x 4.
StrayTails ==
    {<<n(4), PERIOD>>, <<kwTimes, PERIOD>>, <<CLOSE, PERIOD>>, <<kwIf, n(0), PERIOD>>,
     <<VAR(<<"x">>), n(4), PERIOD>>}

\* the line ends with no period after the range:   (nothing)   4   )
OpenTails == {<<>>, <<n(4)>>, <<CLOSE>>}

MalformedInputs ==
    {<<ForOneTwo \o t>> : t \in StrayTails \cup OpenTails \cup {<<PERIOD>>}}
    \cup {<<StoreTypeI>>, <<TypeLine(<<VAR(<<"i">>)>>)>>, <<SetXTo(3)>>,
          <<RangeLine(1, 1, 3)>>}

NextMalformed == nlines < MaxMalformedLines /\ \E input \in MalformedInputs : Eval(input)

SpecMalformed == Init /\ [][NextMalformed]_vars

\* C22: a range that holds, before its terminator, a token other than the
\* expressions, commas and start(step)end triples of its grammar is rejected
\* with a parse error: no token of the range is skipped and no command is
\* built from it.
C22_StrayTokenRejected ==
    \A t \in StrayTails :
        last.input = <<ForOneTwo \o t>> =>
            /\ ~parse(ForOneTwo \o t).ok
            /\ last.err = "parse"
            /\ last.trace = <<>>
            /\ stdout = <<>>
            /\ J = last.pre

\* Do step 1.1 for i = 1,2 4. has been parsed to the command of
\* Do step 1.1 for i = 1,2. and has run step 1.1 for 1 and 2
C22_Witness ==
    /\ last.input = <<ForOneTwo \o <<n(4), PERIOD>>>>
    /\ parse(ForOneTwo \o <<n(4), PERIOD>>) = parse(ForOneTwo \o <<PERIOD>>)
    /\ last.err = "none"
    /\ last.trace = <<Key11, Key11>>
    /\ stdout = <<"1", "\n", "2", "\n">>

\* C25: parsing a line terminates, with a command or a parse error: a
\* Do ... for line whose range is followed by neither . nor : before the
\* end of the line ends in a parse error, it does not loop.
C25_ParseTerminates ==
    /\ last.err # "hang"
    /\ \A t \in OpenTails : last.input = <<ForOneTwo \o t>> =>
           last.err = "parse" /\ stdout = <<>> /\ J = last.pre

\* the call on Do step 1.1 for i = 1,2 with no period has not returned:
\* the parser is in the loop of ValueRange.parse at the end of the line
C25_Witness ==
    /\ last.input = <<ForOneTwo>>
    /\ parse(ForOneTwo) = Throw("hang")
    /\ last.err = "hang"
    /\ stdout = <<>>
    /\ J = last.pre

(***************************************************************************)
(* Sessions of lines with one bracket pair: opened with ( or [ and closed  *)
(* with ), with ] or not at all, in a grouped and a conditional            *)
(* expression, an index list, an argument list, the formals of a Let and   *)
(* the step of a range.                                                    *)
(***************************************************************************)
Opens == {<<"(">>, <<"[">>}

\* ) and ], and "" for a bracket that is not closed
Closes == {<<")">>, <<"]">>, <<>>}

OpenTok(o) == Tok("OPEN_BRACKET", o)
CloseTok(c) == IF c = <<>> THEN <<>> ELSE <<Tok("CLOSE_BRACKET", c)>>

\* Type (1+2)*3   Type (1: 2; 3)   Set a(1) = 5   Type a(1)   Type f(4)
\* Let f(a) = a   Do step 1.1 for i = 1(1)3
BracketForms(o, c) ==
    {<<kwType, OpenTok(o), n(1), OP(<<"+">>), n(2)>> \o CloseTok(c) \o <<OP(<<"*">>), n(3)>>,
     <<kwType, OpenTok(o), n(1), COLON, n(2), SEMICOLON, n(3)>> \o CloseTok(c),
     <<kwSet, VAR(<<"a">>), OpenTok(o), n(1)>> \o CloseTok(c) \o <<OP(<<"=">>), n(5)>>,
     <<kwType, VAR(<<"a">>), OpenTok(o), n(1)>> \o CloseTok(c),
     <<kwType, VAR(<<"f">>), OpenTok(o), n(4)>> \o CloseTok(c),
     <<kwLet, VAR(<<"f">>), OpenTok(o), VAR(<<"a">>)>> \o CloseTok(c)
         \o <<OP(<<"=">>), VAR(<<"a">>)>>,
     <<kwDo, kwStep, NUM(Key11), kwFor, VAR(<<"i">>), OP(<<"=">>), n(1), OpenTok(o), n(1)>>
         \o CloseTok(c) \o <<n(3)>>}

BracketLines(o, c) == {f \o <<PERIOD>> : f \in BracketForms(o, c)}

BracketInputs ==
    {<<l>> : l \in UNION {BracketLines(o, c) : o \in Opens, c \in Closes}}
    \cup {<<StoreTypeI>>}

NextBracket == nlines < MaxBracketLines /\ \E input \in BracketInputs : Eval(input)

SpecBracket == Init /\ [][NextBracket]_vars

\* the bracket that closes o
Partner(o) == IF o = <<"(">> THEN <<")">> ELSE <<"]">>

\* C23: a bracket opened with ( is closed with ) and one opened with [ with
\* ], in grouped and conditional expressions, index and argument lists, the
\* formals of a Let and the step of a range: with the closing bracket of the
\* other kind, or with none, the line is a parse error and no command is
\* executed; with the matching one the line is parsed.
C23_BracketsMatch ==
    \A o \in Opens, c \in Closes : \A l \in BracketLines(o, c) :
        last.input = <<l>> =>
            IF c = Partner(o)
            THEN parse(l).ok /\ last.err # "parse"
            ELSE /\ last.err = "parse"
                 /\ last.trace = <<>>
                 /\ stdout = <<>>
                 /\ J = last.pre

\* Set a[1) = 5. has been rejected, a is not bound; Set a[1] = 5. is parsed
C23_Witness ==
    /\ last.input = <<(<<kwSet, VAR(<<"a">>), OpenTok(<<"[">>), n(1),
                         Tok("CLOSE_BRACKET", <<")">>), OP(<<"=">>), n(5), PERIOD>>)>>
    /\ last.err = "parse"
    /\ <<"a">> \notin DOMAIN arrays
    /\ parse(<<kwSet, VAR(<<"a">>), OpenTok(<<"[">>), n(1),
               Tok("CLOSE_BRACKET", <<"]">>), OP(<<"=">>), n(5), PERIOD>>).ok

(***************************************************************************)
(* Sessions of loops whose unit assigns to what the loop reads: step 1.1   *)
(* Set x = x-1 or Set x = x+2 under Do step 1.1, x times; part 2 (2.1 Type *)
(* i, 2.2 Set i = 9, 2.3 Set e = 0, 2.4 Set s = 5) under Do part 2 for     *)
(* i = 1(s)e;                                                              *)
(* part 3 (3.1 Do step 2.2, 3.2 Let f(a) = a) under Do part 3.             *)
(***************************************************************************)
Key21 == <<"2", ".", "1">>
Key22 == <<"2", ".", "2">>
Key23 == <<"2", ".", "3">>
Key24 == <<"2", ".", "4">>

\* Set x = x-1   Set x = x+2   Type x   Type i   Set i = 9   Set e = 0   Set s = 5
LoopDecX == <<kwSet, VAR(<<"x">>), OP(<<"=">>), VAR(<<"x">>), OP(<<"-">>), n(1)>>
LoopIncX == <<kwSet, VAR(<<"x">>), OP(<<"=">>), VAR(<<"x">>), OP(<<"+">>), n(2)>>
LoopTypeX == <<kwType, VAR(<<"x">>)>>
LoopTypeI == <<kwType, VAR(<<"i">>)>>
LoopSetI == <<kwSet, VAR(<<"i">>), OP(<<"=">>), n(9)>>
LoopSetE == <<kwSet, VAR(<<"e">>), OP(<<"=">>), n(0)>>
LoopSetS == <<kwSet, VAR(<<"s">>), OP(<<"=">>), n(5)>>

\* part 3: 3.1 Do step 2.2   3.2 Let f(a) = a
Key31 == <<"3", ".", "1">>
Key32 == <<"3", ".", "2">>
LoopDoStep == <<kwDo, kwStep, NUM(Key22)>>
LoopLetF == <<kwLet, VAR(<<"f">>), OPEN, VAR(<<"a">>), CLOSE, OP(<<"=">>), VAR(<<"a">>)>>

\* Do step 1.1, x times.
DoTimesX == <<kwDo, kwStep, NUM(Key11), COMMA, VAR(<<"x">>), kwTimes, PERIOD>>

\* Do part 2 for i = 1(s)e.
DoForSE ==
    <<kwDo, kwPart, NUM(<<"2">>), kwFor, VAR(<<"i">>), OP(<<"=">>), n(1), OPEN,
      VAR(<<"s">>), CLOSE, VAR(<<"e">>), PERIOD>>

\* Set s = 1. and Set e = 4. in one call
SetSE == <<SetLine(<<VAR(<<"s">>)>>, <<n(1)>>), SetLine(<<VAR(<<"e">>)>>, <<n(4)>>)>>

LoopInputs ==
    {<<StoreLine(Key11, LoopDecX)>>, <<StoreLine(Key11, LoopTypeX)>>,
     <<StoreLine(Key21, LoopTypeI)>>, <<StoreLine(Key22, LoopSetI)>>,
     <<StoreLine(Key23, LoopSetE)>>, <<StoreLine(Key24, LoopSetS)>>,
     <<StoreLine(Key21, LoopTypeI), StoreLine(Key22, LoopSetI),
       StoreLine(Key23, LoopSetE), StoreLine(Key24, LoopSetS)>>,
     <<StoreLine(Key31, LoopDoStep), StoreLine(Key32, LoopLetF)>>,
     <<StoreLine(Key11, LoopIncX)>>,
     <<SetXTo(3)>>, <<SetXTo(2)>>, SetSE, <<DoTimesX>>, <<DoForSE>>,
     <<DoPartLine(<<"3">>)>>, <<TypeX>>, <<LoopLetF \o <<PERIOD>>>>}

NextLoop == nlines < MaxLoopCalls /\ \E input \in LoopInputs : Eval(input)

SpecLoop == Init /\ [][NextLoop]_vars

\* C26: the count of Do ..., E times is fixed when the Do starts: when the
\* unit changes a variable that E reads, the unit is still executed as many
\* times as E was worth before the first execution (with x = k, Do step 1.1,
\* x times runs Set x = x-1 k times and leaves x = 0).
C26_CountFixedAtStart ==
    \A k \in {2, 3} :
        (/\ last.input = <<DoTimesX>>
         /\ Key11 \in DOMAIN last.pre.program
         /\ last.pre.program[Key11] = CommandOf(LoopDecX)
         /\ XIs(last.pre.variables, k)) =>
            /\ last.err = "none"
            /\ last.trace = Repeat(<<Key11>>, k)
            /\ XIs(variables, 0)

\* with x = 3, Do step 1.1, x times. has run Set x = x-1 twice and stopped
\* at x = 1
C26_Witness ==
    /\ last.input = <<DoTimesX>>
    /\ XIs(last.pre.variables, 3)
    /\ last.err = "none"
    /\ last.trace = <<Key11, Key11>>
    /\ XIs(variables, 1)

\* the keys of part 2 that are stored in the program p, in order
Part2(p) == SelectSeq(<<Key21, Key22, Key23, Key24>>, LAMBDA key : key \in DOMAIN p)

\* C27: in a term start(step)end of Do ... for v the progression has its own
\* counter, and step and end are evaluated once, when the term begins: a
\* unit that assigns to v, or to the variables step and end read, does not
\* change the values of the later iterations, and each iteration starts with
\* v bound to the next value.  (With s = 1 and e = 4, part 2 runs for i = 1,
\* 2 and 3, and then for the end term e, which is evaluated when its turn
\* comes.)
C27_RangeFixedAtStart ==
    (/\ last.input = <<DoForSE>>
     /\ Key21 \in DOMAIN last.pre.program
     /\ <<"s">> \in DOMAIN last.pre.variables /\ last.pre.variables[<<"s">>] = Num(1)
     /\ <<"e">> \in DOMAIN last.pre.variables /\ last.pre.variables[<<"e">>] = Num(4)) =>
        /\ last.err = "none"
        /\ last.trace = Repeat(Part2(last.pre.program), 4)
        /\ stdout = Typed(1) \o Typed(2) \o Typed(3)
                    \o Typed(IF Key23 \in DOMAIN last.pre.program THEN 0 ELSE 4)

\* part 2 with all four steps has run for i = 1, 2 and 3 although each run
\* set i to 9, e to 0 and s to 5
C27_Witness ==
    /\ last.input = <<DoForSE>>
    /\ Part2(last.pre.program) = <<Key21, Key22, Key23, Key24>>
    /\ {<<"s">>, <<"e">>} \subseteq DOMAIN last.pre.variables
    /\ last.pre.variables[<<"s">>] = Num(1)
    /\ last.pre.variables[<<"e">>] = Num(4)
    /\ SubSeq(stdout, 1, 6) = <<"1", "\n", "2", "\n", "3", "\n">>
    /\ variables[<<"i">>] = Num(9)
    /\ variables[<<"s">>] = Num(5)


\* the entries of a part's step list are the keys of the program in that
\* part, each once
ListsTheKeys(p, parts) ==
    /\ \A k \in DOMAIN p : PartOf(k) \in DOMAIN parts
    /\ \A part \in DOMAIN parts :
           /\ {parts[part][i] : i \in 1..Len(parts[part])} = KeysOf(p, part)
           /\ \A a, b \in 1..Len(parts[part]) : parts[part][a] = parts[part][b] => a = b

\* C28 (as the code has it): in every reachable state each part's step list
\* holds exactly the keys of the program in that part, each once, and no
\* entry denotes a smaller number than an entry before it; two labels of the
\* same number (1.1 and 1.10) are two keys and both are in the list.
C28_StepListSorted ==
    /\ ListsTheKeys(program, programParts)
    /\ \A part \in DOMAIN programParts :
           \A a, b \in 1..Len(programParts[part]) :
               a < b => ~NumLt(StringToNumber(programParts[part][b]),
                               StringToNumber(programParts[part][a]))

\* part 1 lists 1.05, then 1.1 and 1.10 in either order, then 1.2
C28_Witness ==
    /\ <<"1">> \in DOMAIN programParts
    /\ Len(programParts[<<"1">>]) = 4
    /\ programParts[<<"1">>][1] = <<"1", ".", "0", "5">>
    /\ {programParts[<<"1">>][2], programParts[<<"1">>][3]}
           = {<<"1", ".", "1">>, <<"1", ".", "1", "0">>}
    /\ programParts[<<"1">>][4] = <<"1", ".", "2">>

\* C28 as stated: the same, with the list in strictly ascending order of
\* number, so that no two entries of a part denote the same number
C28_StepListStrict ==
    /\ ListsTheKeys(program, programParts)
    /\ \A part \in DOMAIN programParts :
           \A a, b \in 1..Len(programParts[part]) :
               a < b => NumLt(StringToNumber(programParts[part][a]),
                              StringToNumber(programParts[part][b]))


\* a line that is a stored command starts with its step number
IsStored(line) == line # <<>> /\ line[1].type = "NUM"

\* C29: the program and the parts' step lists are changed only by a line
\* that is a stored command: a call whose lines are Type, Set, Let and Do
\* commands leaves both as they were, whatever the steps a Do runs, and Do
\* part runs the steps of the list it found.
C29_StoreFrame ==
    (\A i \in 1..Len(last.input) : ~IsStored(last.input[i])) =>
        /\ program = last.pre.program
        /\ programParts = last.pre.programParts
        /\ (last.input = <<DoPartLine(<<"3">>)>> /\ last.err = "none") =>
               SelectSeq(last.trace, LAMBDA k : PartOf(k) = <<"3">>)
                   = last.pre.programParts[<<"3">>]

\* Do part 3. has run 3.1 (Do step 2.2, which set i) and 3.2 (Let f)
C29_Witness ==
    /\ last.input = <<DoPartLine(<<"3">>)>>
    /\ last.err = "none"
    /\ last.trace = <<Key31, Key22, Key32>>
    /\ variables # last.pre.variables
    /\ program = last.pre.program
    /\ programParts = last.pre.programParts


\* C30: the evaluation of a line finishes, normally or with an error, when
\* every range term it reaches has a positive step or a start that is not
\* below its end, every times count is a finite number and no step that its
\* Do reaches issues a Do of a unit holding that step.  (Every line of these
\* sessions is such a line: the steps are 1 and 5, the counts are 1, 2, 3
\* and the numbers x grows or shrinks to, and the only Do in a step, 3.1 Do
\* step 2.2, runs a Set.)
C30_LineFinishes ==
    last.input \in LoopInputs => last.err # "hang"

\* with x = 2, Do step 1.1, x times. over 1.1 Set x = x+2 compares 0 < 2,
\* 1 < 4, 2 < 6, 3 < 8, ... and does not end
C30_Witness ==
    /\ last.input = <<DoTimesX>>
    /\ Key11 \in DOMAIN last.pre.program
    /\ last.pre.program[Key11] = CommandOf(LoopIncX)
    /\ XIs(last.pre.variables, 2)
    /\ last.err = "hang"
    /\ Len(last.trace) = MaxIter
    /\ \A i \in 1..Len(last.trace) : last.trace[i] = Key11

=============================================================================
